---- MODULE Spec2Model ----
(***************************************************************************)
(* Bank synchronisation of fin-wise-hub: the "pluggy" edge function        *)
(* (serve / syncBankData), the periodic trigger of useBankConnections and  *)
(* the goal auto-progress handler of useGoals.                             *)
(*                                                                         *)
(* Conventions of the model:                                               *)
(*  - a local row identifier (gen_random_uuid) is the pair/triple of the   *)
(*    request that inserted the row and the loop position of the insert;   *)
(*  - a timestamp (new Date().toISOString()) is the identifier of the      *)
(*    request that wrote it;                                               *)
(*  - an error message is the tuple of its words.                          *)
(***************************************************************************)
EXTENDS Integers, Sequences, FiniteSets, TLC

\* ------------------------------------------------------------------------
\* Bounds
\* ------------------------------------------------------------------------
MaxRequests == 3
MaxInFlight == 2
MaxFaults == 1
\* autoSync calls that are not skipped, syncConnection calls
MaxCycles == 2
MaxSyncs == 1
\* mounted useGoals hooks, INSERT events
MaxHooks == 2
MaxEvents == 2
\* fetchTransactions calls
MaxFetches == 2

NULL == "NULL"
\* a timestamp column that is null
NoStamp == 0
\* no local row identifier
NoId == <<>>

Users == {"uA", "uB"}
NoToken == "none"
BadToken == "bad"
Tokens == Users \cup {NoToken, BadToken}

ConnIds == {"c1", "c2", "c3"}
MissingConn == "c9"
Items == {"i1", "i2", "i3"}

\* ------------------------------------------------------------------------
\* The aggregator (api.pluggy.ai): what it answers, per response version
\* ------------------------------------------------------------------------
Versions == {1, 2}

ItemAccounts(item) ==
  CASE item = "i1" -> <<"a1", "a2", "a3">>
    [] item = "i2" -> <<"a4">>
    [] OTHER -> <<"a5">>

AccountReport(a, ver) ==
  [id |-> a,
   name |-> <<a, "name", ver>>,
   type |-> IF ver = 1 THEN "BANK" ELSE "CREDIT",
   subtype |-> IF ver = 1 THEN "CHECKING_ACCOUNT" ELSE "CREDIT_CARD",
   balance |-> IF ver = 1 THEN 10000 ELSE 8550,
   currencyCode |-> IF ver = 1 THEN "USD" ELSE NULL]

AccountTransactionIds(a) ==
  CASE a = "a1" -> <<"t1", "t0">>
    [] a = "a2" -> <<"t2">>
    [] a = "a3" -> <<"t3">>
    [] a = "a5" -> <<"t5">>
    [] OTHER -> <<"t4">>

\* dates are <<year, month, day>>
TransactionDate(t) ==
  IF t = "t0" THEN <<2023, 6, 1>> ELSE <<2024, 1, 10>>

TransactionReport(t, ver) ==
  [id |-> t,
   description |-> <<t, "desc", ver>>,
   amount |-> IF t \in {"t2", "t4"} THEN 30000 * ver ELSE (0 - 5000) * ver,
   date |-> TransactionDate(t),
   type |-> IF t \in {"t2", "t4"} THEN "CREDIT" ELSE "DEBIT",
   category |-> IF ver = 1 THEN NULL ELSE "Transfer"]

Today == <<2024, 2, 15>>

DateLeq(d, e) ==
  \/ d[1] < e[1]
  \/ d[1] = e[1] /\ d[2] < e[2]
  \/ d[1] = e[1] /\ d[2] = e[2] /\ d[3] <= e[3]

\* threeMonthsAgo.setMonth(threeMonthsAgo.getMonth() - 3)
ThreeMonthsAgo(d) ==
  IF d[2] > 3 THEN <<d[1], d[2] - 3, d[3]>> ELSE <<d[1] - 1, d[2] + 9, d[3]>>

\* ------------------------------------------------------------------------
\* State
\* ------------------------------------------------------------------------
VARIABLES
  bankConnections,   \* table bank_connections: id -> row
  bankAccounts,      \* table bank_accounts: set of rows
  bankTransactions,  \* table bank_transactions: set of rows
  pluggyVer,         \* which response version the aggregator answers with
  limit,             \* how many requests the deployment runs at once
  offered,           \* the requests the clients send
  req,               \* per request: position in serve/syncBankData and locals
  calls,             \* per request: the calls it has issued so far (history)
  passStart,         \* per request: the store when syncBankData was entered (history)
  faults,            \* how many calls the aggregator or the store has failed so far (history)
  \* -- useBankConnections, one mounted hook of the session of SessionUser
  connections,       \* useState: the connection list, newest first
  accounts,          \* useState: the bank account rows
  isSyncing,         \* useState: a user-initiated sync is running
  connectionsRef,    \* useRef: copy of connections, written by an effect
  isSyncingRef,      \* useRef: copy of isSyncing, written by an effect
  loading,           \* which of the two fetches of the mount effect are outstanding
  initialTimeout,    \* the 5 s timer of the auto-sync effect has not fired yet
  cycles,            \* per autoSync call that was not skipped: position and locals
  syncs,             \* per syncConnection call: position and locals
  removal,           \* the removeConnection call: position and locals
  \* -- useGoals
  goals,             \* table goals: id -> row
  inserted,          \* the INSERT events of bank_transactions published so far
  handlers,          \* per mounted hook and event: position and locals of the handler
  manual,            \* the addToGoal mutation: position and locals
  \* -- useBankTransactions, one mounted hook of the session of SessionUser
  shownTransactions, \* useState transactions: the rows of the list, as row ids
  events,            \* the postgres_changes events published and not yet delivered
  fetches            \* per fetchTransactions call: position and data

storeVars == <<bankConnections, bankAccounts, bankTransactions>>

requestVars == <<pluggyVer, limit, offered, req, calls, passStart>>

serverVars == <<storeVars, requestVars, faults>>

clientVars == <<connections, accounts, isSyncing, connectionsRef, isSyncingRef,
                loading, initialTimeout, cycles, syncs, removal>>

goalVars == <<goals, inserted, handlers, manual>>

listVars == <<shownTransactions, events, fetches>>

vars == <<serverVars, clientVars, goalVars, listVars>>

\* ------------------------------------------------------------------------
\* Error messages and their status (serve, catch block)
\* ------------------------------------------------------------------------
MsgMissingAuth == <<"Missing", "authorization", "header">>
MsgInvalidToken == <<"Invalid", "or", "expired", "token">>
MsgPluggyAuth == <<"Failed", "to", "authenticate", "with", "Pluggy">>
MsgConnectToken == <<"Failed", "to", "create", "connect", "token">>
MsgGetAccounts == <<"Failed", "to", "get", "accounts">>
MsgGetTransactions == <<"Failed", "to", "get", "transactions">>
MsgItemRequired == <<"itemId", "is", "required">>
MsgAccountRequired == <<"accountId", "is", "required">>
MsgConnectionRequired == <<"connectionId", "is", "required">>
MsgConnNotFound == <<"Connection", "not", "found">>
MsgNotAuthorized == <<"Not", "authorized", "to", "access", "this", "connection">>
MsgUnknownAction(action) == <<"Unknown", "action:", action>>

Includes(message, word) == \E i \in 1..Len(message) : message[i] = word

StatusOf(message) ==
  IF \/ Includes(message, "authorization")
     \/ Includes(message, "authorized")
     \/ Includes(message, "token")
  THEN 401 ELSE 500

NoResponse == [status |-> 0, error |-> <<>>, result |-> <<>>]

ErrorResponse(message) == [status |-> StatusOf(message), error |-> message, result |-> <<>>]

OkResponse(result) == [status |-> 200, error |-> <<>>, result |-> result]

\* ------------------------------------------------------------------------
\* Store helpers (PostgREST)
\* ------------------------------------------------------------------------
\* .maybeSingle(): the row when exactly one matches, null otherwise; the
\* data is held as the set of that row, the empty set for null
MaybeSingle(rows) ==
  IF Cardinality(rows) = 1 THEN rows ELSE {}

\* mutant: the lookup compares the wrong column
AccountsByConnectionId(a) == {row \in bankAccounts : row.bank_connection_id = a}

AccountsByPluggyId(a) == {row \in bankAccounts : row.pluggy_account_id = a}

TransactionsByPluggyId(t) == {row \in bankTransactions : row.pluggy_transaction_id = t}

\* mutant: the column carries no UNIQUE constraint
UniqueViolationNever(t) == FALSE

\* pluggy_transaction_id TEXT NOT NULL UNIQUE
UniqueViolation(t) == TransactionsByPluggyId(t) # {}

\* bank_account_id REFERENCES bank_accounts(id)
AccountFkViolation(id) == \A row \in bankAccounts : row.id # id

\* bank_connection_id REFERENCES bank_connections(id)
ConnectionFkViolation(c) == c \notin DOMAIN bankConnections

\* mutant: the update leaves the stored raw payload as it was
UpdatedAccountKeepPayload(row, account, stamp) ==
  [row EXCEPT !.name = account.name,
              !.type = account.type,
              !.subtype = account.subtype,
              !.balance = account.balance,
              !.currency = IF account.currencyCode = NULL THEN "BRL" ELSE account.currencyCode,
              !.updated_at = stamp]

\* mutant: the reported balance is added to the stored one
UpdatedAccountSum(row, account, stamp) ==
  [row EXCEPT !.name = account.name,
              !.type = account.type,
              !.subtype = account.subtype,
              !.balance = row.balance + account.balance,
              !.currency = IF account.currencyCode = NULL THEN "BRL" ELSE account.currencyCode,
              !.bank_data = account,
              !.updated_at = stamp]

\* the fields syncBankData writes over an existing bank_accounts row
UpdatedAccount(row, account, stamp) ==
  [row EXCEPT !.name = account.name,
              !.type = account.type,
              !.subtype = account.subtype,
              !.balance = account.balance,
              !.currency = IF account.currencyCode = NULL THEN "BRL" ELSE account.currencyCode,
              !.bank_data = account,
              !.updated_at = stamp]

\* the bank_accounts row syncBankData inserts
NewAccount(id, userId, connectionId, account, stamp) ==
  [id |-> id,
   user_id |-> userId,
   bank_connection_id |-> connectionId,
   pluggy_account_id |-> account.id,
   name |-> account.name,
   type |-> account.type,
   subtype |-> account.subtype,
   balance |-> account.balance,
   currency |-> IF account.currencyCode = NULL THEN "BRL" ELSE account.currencyCode,
   bank_data |-> account,
   updated_at |-> stamp]

\* the bank_transactions row syncBankData inserts
NewTransaction(id, userId, bankAccountId, tx) ==
  [id |-> id,
   user_id |-> userId,
   bank_account_id |-> bankAccountId,
   pluggy_transaction_id |-> tx.id,
   description |-> tx.description,
   amount |-> tx.amount,
   date |-> tx.date,
   type |-> tx.type,
   category |-> tx.category,
   payment_data |-> tx]

\* ------------------------------------------------------------------------
\* Requests
\* ------------------------------------------------------------------------
\* the body of a request and its Authorization header
Input(token, action, itemId, connectionId) ==
  [token |-> token, action |-> action, itemId |-> itemId,
   connectionId |-> connectionId, accountId |-> NULL, bodyUserId |-> NULL]

\* sync requests as the hook of part_011 sends them
RequestInputs ==
  { Input("uA", "sync", "i1", "c1"),
    Input("uB", "sync", "i2", "c2"),
    Input("uB", "sync", "i1", "c1"),
    Input("uA", "sync", "i2", "c1"),
    Input("uA", "sync", "i1", MissingConn),
    Input(NoToken, "sync", "i1", "c1"),
    Input(BadToken, "sync", "i1", "c1") }

\* sync requests with a userId in the body, as the hook of
\* src/hooks/useBankConnections.tsx sends them, or as a caller forges them
BodyUserIdInputs ==
  { [Input("uA", "sync", "i1", "c1") EXCEPT !.bodyUserId = "uA"],
    [Input("uA", "sync", "i1", "c1") EXCEPT !.bodyUserId = "uB"],
    [Input("uB", "sync", "i1", "c1") EXCEPT !.bodyUserId = "uA"] }

\* requests for the other actions without a header or with a token the auth
\* service rejects, one of them without the itemId its action requires
UnauthenticatedInputs ==
  { Input(NoToken, "create-connect-token", NULL, NULL),
    Input(NoToken, "get-accounts", NULL, NULL),
    [Input(BadToken, "get-transactions", NULL, NULL) EXCEPT !.accountId = "a1"],
    Input(BadToken, "refresh", "i1", "c1") }

\* requests for the other actions of the switch, for the caller's own item
\* and account and for those of another user, and for an action the switch
\* does not know (the "refresh" of refreshConnection)
ActionInputs ==
  { Input("uA", "create-connect-token", NULL, NULL),
    Input("uA", "get-accounts", "i1", NULL),
    [Input("uA", "get-transactions", NULL, NULL) EXCEPT !.accountId = "a1"],
    Input("uA", "get-accounts", "i2", NULL),
    [Input("uA", "get-transactions", NULL, NULL) EXCEPT !.accountId = "a4"],
    Input("uA", "refresh", "i1", "c1") }

IdleRequest ==
  [pc |-> "idle", token |-> NULL, action |-> NULL, itemId |-> NULL,
   connectionId |-> NULL, accountId |-> NULL, bodyUserId |-> NULL, userId |-> NULL, accounts |-> <<>>, ai |-> 0,
   existingAccount |-> {}, bankAccountId |-> NoId, transactions |-> <<>>,
   ti |-> 0, syncedAccountsCount |-> 0, syncedTransactionsCount |-> 0,
   response |-> NoResponse]

InFlight(r) == req[r].pc \notin {"idle", "done"}

\* the handler returns: its locals are gone, the response is out
Finished(q, resp) ==
  [IdleRequest EXCEPT !.pc = "done", !.token = q.token, !.action = q.action,
                      !.itemId = q.itemId, !.connectionId = q.connectionId,
                      !.accountId = q.accountId, !.bodyUserId = q.bodyUserId,
                      !.response = resp]

\* the outcomes a call to the aggregator or an insert can have
Outcomes == IF faults < MaxFaults THEN BOOLEAN ELSE {TRUE}

Fault(ok) == faults' = IF ok THEN faults ELSE faults + 1

Call(r, op, arg, ok) == calls' = [calls EXCEPT ![r] = Append(@, <<op, arg, ok>>)]

\* ------------------------------------------------------------------------
\* serve: a request arrives
\* ------------------------------------------------------------------------
Start(r) ==
  /\ req[r].pc = "idle"
  /\ \A q \in DOMAIN req : q < r => req[q].pc # "idle"
  /\ Cardinality({q \in DOMAIN req : InFlight(q)}) < limit
  /\ \E in \in offered :
       req' = [req EXCEPT ![r] = [IdleRequest EXCEPT !.pc = "getUser",
                                                     !.token = in.token,
                                                     !.action = in.action,
                                                     !.itemId = in.itemId,
                                                     !.connectionId = in.connectionId,
                                                     !.accountId = in.accountId,
                                                     !.bodyUserId = in.bodyUserId]]
  /\ UNCHANGED <<bankConnections, bankAccounts, bankTransactions, pluggyVer,
                 limit, offered, calls, passStart, faults>>
  /\ UNCHANGED <<clientVars, goalVars, listVars>>

\* (the userId of the body is taken when the body has one)
ClientSuppliedUserId(token, bodyUserId) == IF bodyUserId = NULL THEN token ELSE bodyUserId

\* authenticatedUserId: the id of the user auth.getUser returns for the token
AuthenticatedUserId(token, bodyUserId) == token

\* (the handler logs the error of the token and goes on)
AfterRejectedTokenGoOn(q, message) == [q EXCEPT !.pc = "getPluggyApiKey", !.userId = q.token]

\* getAuthenticatedUser throws into the catch of serve
AfterRejectedToken(q, message) == Finished(q, ErrorResponse(message))

\* getAuthenticatedUser, then req.json()
GetAuthenticatedUser(r) ==
  /\ req[r].pc = "getUser"
  /\ IF req[r].token = NoToken
     THEN /\ req' = [req EXCEPT ![r] = AfterRejectedToken(@, MsgMissingAuth)]
          /\ UNCHANGED calls
     ELSE /\ Call(r, "auth.getUser", req[r].token, req[r].token \in Users)
          /\ IF req[r].token \in Users
             THEN req' = [req EXCEPT ![r].pc = "getPluggyApiKey",
                                   ![r].userId = AuthenticatedUserId(req[r].token,
                                                                     req[r].bodyUserId)]
             ELSE req' = [req EXCEPT ![r] = AfterRejectedToken(@, MsgInvalidToken)]
  /\ UNCHANGED <<bankConnections, bankAccounts, bankTransactions, pluggyVer,
                 limit, offered, passStart, faults>>
  /\ UNCHANGED <<clientVars, goalVars, listVars>>

\* (the sync case goes to syncBankData at once)
DispatchWithoutOwnership(q) == [q EXCEPT !.pc = "getAccounts"]

\* the switch of serve, entered with an API key
Dispatch(q) ==
  CASE q.action = "create-connect-token" -> [q EXCEPT !.pc = "createConnectToken"]
    [] q.action = "get-accounts" ->
         IF q.itemId = NULL THEN Finished(q, ErrorResponse(MsgItemRequired))
         ELSE [q EXCEPT !.pc = "listAccounts"]
    [] q.action = "get-transactions" ->
         IF q.accountId = NULL THEN Finished(q, ErrorResponse(MsgAccountRequired))
         ELSE [q EXCEPT !.pc = "listTransactions"]
    [] q.action = "sync" ->
         IF q.itemId = NULL THEN Finished(q, ErrorResponse(MsgItemRequired))
         ELSE IF q.connectionId = NULL THEN Finished(q, ErrorResponse(MsgConnectionRequired))
         ELSE [q EXCEPT !.pc = "verifyConnectionOwnership"]
    [] OTHER -> Finished(q, ErrorResponse(MsgUnknownAction(q.action)))

\* getPluggyApiKey, then the switch
GetPluggyApiKey(r) ==
  /\ req[r].pc = "getPluggyApiKey"
  /\ \E ok \in Outcomes :
       /\ Call(r, "pluggy.auth", NULL, ok)
       /\ Fault(ok)
       /\ req' = [req EXCEPT ![r] = IF ok THEN Dispatch(@)
                                    ELSE Finished(@, ErrorResponse(MsgPluggyAuth))]
  /\ UNCHANGED <<bankConnections, bankAccounts, bankTransactions, pluggyVer,
                 limit, offered, passStart>>
  /\ UNCHANGED <<clientVars, goalVars, listVars>>

\* case 'create-connect-token': createConnectToken(apiKey)
CreateConnectToken(r) ==
  /\ req[r].pc = "createConnectToken"
  /\ \E ok \in Outcomes :
       /\ Call(r, "pluggy.connect_token", NULL, ok)
       /\ Fault(ok)
       /\ req' = [req EXCEPT ![r] =
                    IF ok THEN Finished(@, OkResponse([connectToken |-> "accessToken"]))
                    ELSE Finished(@, ErrorResponse(MsgConnectToken))]
  /\ UNCHANGED <<bankConnections, bankAccounts, bankTransactions, pluggyVer,
                 limit, offered, passStart>>
  /\ UNCHANGED <<clientVars, goalVars, listVars>>

\* case 'get-accounts': getAccounts(apiKey, itemId)
ListAccounts(r) ==
  /\ req[r].pc = "listAccounts"
  /\ \E ok \in Outcomes :
       /\ Call(r, "pluggy.accounts", req[r].itemId, ok)
       /\ Fault(ok)
       /\ req' = [req EXCEPT ![r] =
                    IF ok
                    THEN LET ids == ItemAccounts(req[r].itemId) IN
                           Finished(@, OkResponse(
                             [results |-> [i \in 1..Len(ids) |-> AccountReport(ids[i], pluggyVer)]]))
                    ELSE Finished(@, ErrorResponse(MsgGetAccounts))]
  /\ UNCHANGED <<bankConnections, bankAccounts, bankTransactions, pluggyVer,
                 limit, offered, passStart>>
  /\ UNCHANGED <<clientVars, goalVars, listVars>>

\* case 'get-transactions': getTransactions(apiKey, accountId, from), the
\* body giving no from
ListTransactions(r) ==
  /\ req[r].pc = "listTransactions"
  /\ \E ok \in Outcomes :
       /\ Call(r, "pluggy.transactions", req[r].accountId, ok)
       /\ Fault(ok)
       /\ req' = [req EXCEPT ![r] =
                    IF ok
                    THEN LET ids == AccountTransactionIds(req[r].accountId) IN
                           Finished(@, OkResponse(
                             [results |-> [i \in 1..Len(ids) |->
                                             TransactionReport(ids[i], pluggyVer)]]))
                    ELSE Finished(@, ErrorResponse(MsgGetTransactions))]
  /\ UNCHANGED <<bankConnections, bankAccounts, bankTransactions, pluggyVer,
                 limit, offered, passStart>>
  /\ UNCHANGED <<clientVars, goalVars, listVars>>

\* mutant: the owner of the connection is not compared with the caller
OwnershipErrorNoOwner(connectionId, userId) ==
  IF connectionId \notin DOMAIN bankConnections THEN MsgConnNotFound ELSE NULL

\* the outcome of verifyConnectionOwnership: NULL when it returns, the
\* message when it throws
OwnershipError(connectionId, userId) ==
  IF connectionId \notin DOMAIN bankConnections THEN MsgConnNotFound
  ELSE IF bankConnections[connectionId].user_id # userId THEN MsgNotAuthorized
  ELSE NULL

VerifyConnectionOwnership(r) ==
  /\ req[r].pc = "verifyConnectionOwnership"
  /\ LET err == OwnershipError(req[r].connectionId, req[r].userId) IN
       /\ Call(r, "select bank_connections", req[r].connectionId, err = NULL)
       /\ IF err = NULL
          THEN /\ req' = [req EXCEPT ![r].pc = "getAccounts"]
               /\ passStart' = [passStart EXCEPT ![r] =
                                  [accounts |-> bankAccounts, transactions |-> bankTransactions,
                                   ver |-> pluggyVer]]
          ELSE /\ req' = [req EXCEPT ![r] = Finished(@, ErrorResponse(err))]
               /\ UNCHANGED passStart
  /\ UNCHANGED <<bankConnections, bankAccounts, bankTransactions, pluggyVer, limit, offered,
                 faults>>
  /\ UNCHANGED <<clientVars, goalVars, listVars>>

\* ------------------------------------------------------------------------
\* syncBankData
\* ------------------------------------------------------------------------
\* the for loop over accounts moves on (continue, end of body, catch)
NextAccount(q) ==
  IF q.ai < Len(q.accounts)
  THEN [q EXCEPT !.pc = "selectAccount", !.ai = q.ai + 1, !.existingAccount = {},
                 !.bankAccountId = NoId, !.transactions = <<>>, !.ti = 0]
  ELSE [q EXCEPT !.pc = "updateLastSync", !.ai = 0, !.existingAccount = {},
                 !.bankAccountId = NoId, !.transactions = <<>>, !.ti = 0]

\* the for loop over transactions moves on
NextTransaction(q) ==
  IF q.ti < Len(q.transactions)
  THEN [q EXCEPT !.pc = "selectTransaction", !.ti = q.ti + 1]
  ELSE NextAccount(q)

\* getAccounts(apiKey, itemId)
GetAccounts(r) ==
  /\ req[r].pc = "getAccounts"
  /\ \E ok \in Outcomes :
       /\ Call(r, "pluggy.accounts", req[r].itemId, ok)
       /\ Fault(ok)
       /\ IF ok
          THEN LET ids == ItemAccounts(req[r].itemId)
                   reported == [i \in 1..Len(ids) |-> AccountReport(ids[i], pluggyVer)] IN
                 req' = [req EXCEPT ![r] = NextAccount([@ EXCEPT !.accounts = reported, !.ai = 0])]
          ELSE req' = [req EXCEPT ![r] = Finished(@, ErrorResponse(MsgGetAccounts))]
  /\ UNCHANGED <<bankConnections, bankAccounts, bankTransactions, pluggyVer,
                 limit, offered, passStart>>
  /\ UNCHANGED <<clientVars, goalVars, listVars>>

\* select * from bank_accounts where pluggy_account_id = account.id, maybeSingle
SelectAccount(r) ==
  /\ req[r].pc = "selectAccount"
  /\ LET account == req[r].accounts[req[r].ai] IN
       /\ Call(r, "select bank_accounts", account.id, TRUE)
       /\ req' = [req EXCEPT ![r].pc = "upsertAccount",
                             ![r].existingAccount = MaybeSingle(AccountsByPluggyId(account.id))]
  /\ UNCHANGED <<bankConnections, bankAccounts, bankTransactions, pluggyVer,
                 limit, offered, passStart, faults>>
  /\ UNCHANGED <<clientVars, goalVars, listVars>>

\* if (existingAccount): update bank_accounts ... where id = existingAccount.id
UpdateAccount(r) ==
  /\ req[r].pc = "upsertAccount"
  /\ req[r].existingAccount # {}
  /\ LET account == req[r].accounts[req[r].ai]
         id == (CHOOSE row \in req[r].existingAccount : TRUE).id IN
       /\ Call(r, "update bank_accounts", account.id, TRUE)
       /\ bankAccounts' = {IF row.id = id THEN UpdatedAccount(row, account, r) ELSE row :
                             row \in bankAccounts}
       /\ req' = [req EXCEPT ![r].pc = "getTransactions",
                             ![r].bankAccountId = id,
                             ![r].syncedAccountsCount = @ + 1]
  /\ UNCHANGED <<bankConnections, bankTransactions, pluggyVer, limit, offered, passStart, faults>>
  /\ UNCHANGED <<clientVars, goalVars, listVars>>

\* (the account whose insert failed has its transactions fetched all the same)
AfterInsertErrorFetch(q) == [q EXCEPT !.pc = "getTransactions"]

\* (the insert error ends the pass)
AfterInsertErrorAbort(q) == Finished(q, ErrorResponse(<<"Failed", "to", "insert", "account">>))

\* if (insertError) { console.error(...); continue; }
AfterInsertError(q) == NextAccount(q)

\* else: insert into bank_accounts; on insertError, continue
InsertAccount(r) ==
  /\ req[r].pc = "upsertAccount"
  /\ req[r].existingAccount = {}
  /\ LET account == req[r].accounts[req[r].ai]
         id == <<r, req[r].ai>> IN
     \E accepted \in Outcomes :
       LET ok == accepted /\ ~ConnectionFkViolation(req[r].connectionId) IN
       /\ Call(r, "insert bank_accounts", account.id, ok)
       /\ Fault(accepted)
       /\ IF ok
          THEN /\ bankAccounts' = bankAccounts \cup
                     {NewAccount(id, req[r].userId, req[r].connectionId, account, r)}
               /\ req' = [req EXCEPT ![r].pc = "getTransactions",
                                     ![r].bankAccountId = id,
                                     ![r].syncedAccountsCount = @ + 1]
          ELSE /\ req' = [req EXCEPT ![r] = AfterInsertError(@)]
               /\ UNCHANGED bankAccounts
  /\ UNCHANGED <<bankConnections, bankTransactions, pluggyVer, limit, offered, passStart>>
  /\ UNCHANGED <<clientVars, goalVars, listVars>>

\* what the aggregator lists for an account from a date on
ListedTransactions(a, from, ver) ==
  LET ids == AccountTransactionIds(a)
      all == [i \in 1..Len(ids) |-> TransactionReport(ids[i], ver)] IN
    SelectSeq(all, LAMBDA tx : DateLeq(from, tx.date))

\* mutant: the error of getTransactions is not caught and ends the pass
AfterTransactionsErrorAbort(q) == Finished(q, ErrorResponse(MsgGetTransactions))

\* catch (txError) { console.error(...) }: the loop over accounts goes on
AfterTransactionsError(q) == NextAccount(q)

\* getTransactions(apiKey, account.id, threeMonthsAgo) inside try/catch
GetTransactions(r) ==
  /\ req[r].pc = "getTransactions"
  /\ LET account == req[r].accounts[req[r].ai] IN
     \E ok \in Outcomes :
       /\ Call(r, "pluggy.transactions", account.id, ok)
       /\ Fault(ok)
       /\ IF ok
          THEN req' = [req EXCEPT ![r] = NextTransaction(
                         [@ EXCEPT !.transactions =
                                     ListedTransactions(account.id, ThreeMonthsAgo(Today), pluggyVer),
                                   !.ti = 0])]
          ELSE req' = [req EXCEPT ![r] = AfterTransactionsError(@)]
  /\ UNCHANGED <<bankConnections, bankAccounts, bankTransactions, pluggyVer,
                 limit, offered, passStart>>
  /\ UNCHANGED <<clientVars, goalVars, listVars>>

\* (the stored row takes the fields the aggregator reports now)
ExistingTransactionRefreshed(rows, tx) ==
  {IF row.pluggy_transaction_id = tx.id
   THEN [row EXCEPT !.description = tx.description, !.amount = tx.amount,
                    !.date = tx.date, !.type = tx.type, !.category = tx.category,
                    !.payment_data = tx]
   ELSE row : row \in rows}

\* if (!existingTx) { ... } has no else: the table after the lookup found
\* the row
ExistingTransactionKept(rows, tx) == rows

\* select id from bank_transactions where pluggy_transaction_id = tx.id
SelectTransaction(r) ==
  /\ req[r].pc = "selectTransaction"
  /\ LET tx == req[r].transactions[req[r].ti]
         existingTx == MaybeSingle(TransactionsByPluggyId(tx.id)) IN
       /\ Call(r, "select bank_transactions", tx.id, TRUE)
       /\ req' = [req EXCEPT ![r] = IF existingTx = {}
                                    THEN [@ EXCEPT !.pc = "insertTransaction"]
                                    ELSE NextTransaction(@)]
       /\ bankTransactions' = IF existingTx = {}
                              THEN bankTransactions
                              ELSE ExistingTransactionKept(bankTransactions, tx)
  /\ UNCHANGED <<bankConnections, bankAccounts, pluggyVer,
                 limit, offered, passStart, faults>>
  /\ UNCHANGED <<clientVars, goalVars, listVars>>

\* whether the table takes the new bank_transactions row
InsertTransactionAccepted(tx, bankAccountId) ==
  ~UniqueViolation(tx.id) /\ ~AccountFkViolation(bankAccountId)

\* mutant: the counter does not look at txError
CountedTransactionsAlways(count, ok) == count + 1

\* syncedTransactionsCount after an insert that ended with or without txError
CountedTransactions(count, ok) == IF ok THEN count + 1 ELSE count

\* if (!existingTx): insert into bank_transactions
InsertTransaction(r) ==
  /\ req[r].pc = "insertTransaction"
  /\ LET tx == req[r].transactions[req[r].ti]
         id == <<r, req[r].ai, req[r].ti>> IN
     \E accepted \in Outcomes :
       LET ok == accepted /\ InsertTransactionAccepted(tx, req[r].bankAccountId) IN
       /\ Call(r, "insert bank_transactions", tx.id, ok)
       /\ Fault(accepted)
       /\ bankTransactions' =
            IF ok
            THEN bankTransactions \cup {NewTransaction(id, req[r].userId, req[r].bankAccountId, tx)}
            ELSE bankTransactions
       /\ req' = [req EXCEPT ![r] = NextTransaction(
                    [@ EXCEPT !.syncedTransactionsCount = CountedTransactions(@, ok)])]
  /\ UNCHANGED <<bankConnections, bankAccounts, pluggyVer, limit, offered, passStart>>
  /\ UNCHANGED <<clientVars, goalVars, listVars>>

\* update bank_connections set last_sync_at where id = connectionId; return
UpdateLastSync(r) ==
  /\ req[r].pc = "updateLastSync"
  /\ Call(r, "update bank_connections", req[r].connectionId, TRUE)
  /\ bankConnections' =
       [c \in DOMAIN bankConnections |->
          IF c = req[r].connectionId
          THEN [bankConnections[c] EXCEPT !.last_sync_at = r]
          ELSE bankConnections[c]]
  /\ req' = [req EXCEPT ![r] = Finished(@, OkResponse(
               [accounts |-> req[r].syncedAccountsCount,
                transactions |-> req[r].syncedTransactionsCount]))]
  /\ UNCHANGED <<bankAccounts, bankTransactions, pluggyVer, limit, offered, passStart, faults>>
  /\ UNCHANGED <<clientVars, goalVars, listVars>>

\* the aggregator's data changes; it is taken to be stable while a request
\* is being served
AggregatorChange ==
  /\ pluggyVer = 1
  /\ \A r \in DOMAIN req : ~InFlight(r)
  /\ pluggyVer' = 2
  /\ UNCHANGED <<bankConnections, bankAccounts, bankTransactions, limit, offered, req,
                 calls, passStart, faults>>
  /\ UNCHANGED <<clientVars, goalVars, listVars>>

\* ========================================================================
\* useBankConnections: the periodic trigger and the user-initiated sync
\* ========================================================================
\* the user of the session
SessionUser == "uA"

\* what supabase.functions.invoke("pluggy", {action: "sync"}) hands back:
\* {error}, a rejected promise, data.transactions = 0, data.transactions > 0
InvokeOutcomes == {"error", "throw", "none", "some"}

\* order("created_at", {ascending: false})
RECURSIVE NewestFirst(_)
NewestFirst(ids) ==
  IF ids = {}
  THEN <<>>
  ELSE LET c == CHOOSE x \in ids :
                  \A y \in ids : bankConnections[y].created_at <= bankConnections[x].created_at
       IN <<c>> \o NewestFirst(ids \ {c})

\* the rows of bank_connections the row level security lets the user see,
\* reduced to the two columns the hook reads
VisibleConnections(user) ==
  LET order == NewestFirst({c \in DOMAIN bankConnections : bankConnections[c].user_id = user}) IN
    [i \in 1..Len(order) |->
       [id |-> order[i], pluggy_item_id |-> bankConnections[order[i]].pluggy_item_id]]

\* the rows of bank_accounts the user sees (their order is not modelled)
VisibleAccounts(user) == {row \in bankAccounts : row.user_id = user}

ConnectionIdsOf(list) == [i \in 1..Len(list) |-> list[i].id]

IdleCycle ==
  [pc |-> "idle",
   list |-> <<>>,          \* currentConnections
   i |-> 0,                \* position of the for loop
   attempted |-> <<>>,     \* the connections a sync was invoked for (history)
   outcomes |-> <<>>,      \* what the invocations handed back (history)
   toasts |-> <<>>,        \* the notifications shown (history)
   overlapped |-> FALSE]   \* a pass was in flight when the cycle began (history)

IdleSync ==
  [pc |-> "idle",
   connectionId |-> NULL,
   toasts |-> <<>>,        \* the notifications shown (history)
   overlapped |-> FALSE]   \* a pass was in flight when the call began (history)

IdleRemoval == [pc |-> "idle", id |-> NULL, ok |-> TRUE, toasts |-> <<>>]

\* the sync passes whose invocation has not returned yet
PassesInFlight ==
  {<<"periodic", cy>> : cy \in {k \in DOMAIN cycles : cycles[k].pc = "invoke"}}
    \cup {<<"user", u>> : u \in {k \in DOMAIN syncs : syncs[k].pc = "invoke"}}

\* fetchConnections: setConnections(data) unless the select failed
FetchConnections(ok) ==
  connections' = IF ok THEN VisibleConnections(SessionUser) ELSE connections

\* the toast of fetchConnections
FetchConnectionsToasts(toasts, ok) ==
  IF ok THEN toasts ELSE Append(toasts, "error loading connections")

\* fetchAccounts: setAccounts(data) unless the select failed
FetchAccounts(ok) ==
  accounts' = IF ok THEN VisibleAccounts(SessionUser) ELSE accounts

\* the mount effect: fetchConnections()
LoadConnections ==
  /\ "connections" \in loading
  /\ loading' = loading \ {"connections"}
  /\ \E ok \in Outcomes : FetchConnections(ok) /\ Fault(ok)
  /\ UNCHANGED <<accounts, isSyncing, connectionsRef, isSyncingRef, initialTimeout,
                 cycles, syncs, removal>>
  /\ UNCHANGED <<storeVars, requestVars, goalVars, listVars>>

\* the mount effect: fetchAccounts()
LoadAccounts ==
  /\ "accounts" \in loading
  /\ loading' = loading \ {"accounts"}
  /\ \E ok \in Outcomes : FetchAccounts(ok) /\ Fault(ok)
  /\ UNCHANGED <<connections, isSyncing, connectionsRef, isSyncingRef, initialTimeout,
                 cycles, syncs, removal>>
  /\ UNCHANGED <<storeVars, requestVars, goalVars, listVars>>

\* the two effects that copy the state into the refs run after a render
CommitEffects ==
  /\ connectionsRef # connections \/ isSyncingRef # isSyncing
  /\ connectionsRef' = connections
  /\ isSyncingRef' = isSyncing
  /\ UNCHANGED <<connections, accounts, isSyncing, loading, initialTimeout,
                 cycles, syncs, removal>>
  /\ UNCHANGED <<serverVars, goalVars, listVars>>

\* (the syncs of all the connections are invoked at once)
AllConnections(q) ==
  IF q.i < Len(q.list)
  THEN [q EXCEPT !.pc = "invoke", !.i = Len(q.list),
                 !.attempted = ConnectionIdsOf(q.list)]
  ELSE [q EXCEPT !.pc = "done"]

\* the for loop of autoSync moves to its next connection and invokes
\* syncConnectionDirect for it, or ends
NextConnection(q) ==
  IF q.i < Len(q.list)
  THEN [q EXCEPT !.pc = "invoke", !.i = q.i + 1,
                 !.attempted = Append(q.attempted, q.list[q.i + 1].id)]
  ELSE [q EXCEPT !.pc = "done"]

\* autoSync
AutoSync ==
  LET currentConnections == connectionsRef IN
    IF Len(currentConnections) = 0 \/ isSyncingRef
    THEN UNCHANGED cycles
    ELSE \E cy \in DOMAIN cycles :
           /\ cycles[cy].pc = "idle"
           /\ \A k \in DOMAIN cycles : k < cy => cycles[k].pc # "idle"
           /\ cycles' = [cycles EXCEPT ![cy] =
                           NextConnection([IdleCycle EXCEPT
                                             !.list = currentConnections,
                                             !.overlapped = PassesInFlight # {}])]

\* setTimeout(autoSync, 5000)
InitialTimeout ==
  /\ initialTimeout
  /\ initialTimeout' = FALSE
  /\ AutoSync
  /\ UNCHANGED <<connections, accounts, isSyncing, connectionsRef, isSyncingRef,
                 loading, syncs, removal>>
  /\ UNCHANGED <<serverVars, goalVars, listVars>>

\* setInterval(autoSync, 5 * 60 * 1000)
IntervalTick ==
  /\ ~initialTimeout
  /\ AutoSync
  /\ UNCHANGED <<connections, accounts, isSyncing, connectionsRef, isSyncingRef,
                 loading, initialTimeout, syncs, removal>>
  /\ UNCHANGED <<serverVars, goalVars, listVars>>

\* (the loop of autoSync ends at the first pass that fails)
AfterFailedPassStop(q) == [q EXCEPT !.pc = "done"]

\* syncConnectionDirect returned false, or threw into the catch of the loop
AfterFailedPass(q) == NextConnection(q)

\* (the background sync reports its failures as the user-initiated one does)
DirectToastsLoud(toasts, out) ==
  CASE out = "some" -> Append(toasts, "success")
    [] out = "none" -> toasts
    [] OTHER -> Append(toasts, "error")

\* the notifications after syncConnectionDirect got the result of the
\* invocation: toast.success only if data.transactions > 0
DirectToasts(toasts, out) == IF out = "some" THEN Append(toasts, "success") ELSE toasts

\* syncConnectionDirect: the invocation returns
SyncConnectionDirect(cy) ==
  /\ cycles[cy].pc = "invoke"
  /\ \E out \in InvokeOutcomes :
       LET q == [cycles[cy] EXCEPT !.outcomes = Append(cycles[cy].outcomes, out),
                                   !.toasts = DirectToasts(cycles[cy].toasts, out)] IN
         cycles' = [cycles EXCEPT ![cy] =
                      CASE out = "some" -> [q EXCEPT !.pc = "fetchConnections"]
                        [] out = "none" -> NextConnection(q)
                        [] OTHER -> AfterFailedPass(q)]
  /\ UNCHANGED <<connections, accounts, isSyncing, connectionsRef, isSyncingRef,
                 loading, initialTimeout, syncs, removal>>
  /\ UNCHANGED <<serverVars, goalVars, listVars>>

\* syncConnectionDirect: await fetchConnections()
DirectFetchConnections(cy) ==
  /\ cycles[cy].pc = "fetchConnections"
  /\ \E ok \in Outcomes :
       /\ Fault(ok)
       /\ FetchConnections(ok)
       /\ cycles' = [cycles EXCEPT ![cy] =
                       [cycles[cy] EXCEPT !.pc = "fetchAccounts",
                                          !.toasts = FetchConnectionsToasts(cycles[cy].toasts, ok)]]
  /\ UNCHANGED <<accounts, isSyncing, connectionsRef, isSyncingRef,
                 loading, initialTimeout, syncs, removal>>
  /\ UNCHANGED <<storeVars, requestVars, goalVars, listVars>>

\* syncConnectionDirect: await fetchAccounts(), return true
DirectFetchAccounts(cy) ==
  /\ cycles[cy].pc = "fetchAccounts"
  /\ \E ok \in Outcomes : FetchAccounts(ok) /\ Fault(ok)
  /\ cycles' = [cycles EXCEPT ![cy] = NextConnection(cycles[cy])]
  /\ UNCHANGED <<connections, isSyncing, connectionsRef, isSyncingRef,
                 loading, initialTimeout, syncs, removal>>
  /\ UNCHANGED <<storeVars, requestVars, goalVars, listVars>>

\* syncConnection, called from the button of a connection card, which is
\* disabled while isSyncing: setIsSyncing(true) and the invocation
SyncConnection(u, i) ==
  /\ syncs[u].pc = "idle"
  /\ \A k \in DOMAIN syncs : k < u => syncs[k].pc # "idle"
  /\ ~isSyncing
  /\ i \in 1..Len(connections)
  /\ isSyncing' = TRUE
  /\ syncs' = [syncs EXCEPT ![u] = [IdleSync EXCEPT !.pc = "invoke",
                                                    !.connectionId = connections[i].id,
                                                    !.overlapped = PassesInFlight # {}]]
  /\ UNCHANGED <<connections, accounts, connectionsRef, isSyncingRef,
                 loading, initialTimeout, cycles, removal>>
  /\ UNCHANGED <<serverVars, goalVars, listVars>>

\* syncConnection: the invocation returns
SyncConnectionReturn(u) ==
  /\ syncs[u].pc = "invoke"
  /\ \E out \in InvokeOutcomes :
       IF out \in {"error", "throw"}
       THEN /\ syncs' = [syncs EXCEPT ![u] =
                           [syncs[u] EXCEPT !.pc = "done",
                                            !.toasts = Append(syncs[u].toasts, "error")]]
            /\ isSyncing' = FALSE
       ELSE /\ syncs' = [syncs EXCEPT ![u] =
                           [syncs[u] EXCEPT !.pc = "fetchConnections",
                                            !.toasts = Append(syncs[u].toasts,
                                                              IF out = "some" THEN "success"
                                                                              ELSE "info")]]
            /\ UNCHANGED isSyncing
  /\ UNCHANGED <<connections, accounts, connectionsRef, isSyncingRef,
                 loading, initialTimeout, cycles, removal>>
  /\ UNCHANGED <<serverVars, goalVars, listVars>>

\* syncConnection: await fetchConnections()
SyncFetchConnections(u) ==
  /\ syncs[u].pc = "fetchConnections"
  /\ \E ok \in Outcomes :
       /\ Fault(ok)
       /\ FetchConnections(ok)
       /\ syncs' = [syncs EXCEPT ![u] =
                      [syncs[u] EXCEPT !.pc = "fetchAccounts",
                                       !.toasts = FetchConnectionsToasts(syncs[u].toasts, ok)]]
  /\ UNCHANGED <<accounts, isSyncing, connectionsRef, isSyncingRef,
                 loading, initialTimeout, cycles, removal>>
  /\ UNCHANGED <<storeVars, requestVars, goalVars, listVars>>

\* syncConnection: await fetchAccounts(), return true, finally setIsSyncing(false)
SyncFetchAccounts(u) ==
  /\ syncs[u].pc = "fetchAccounts"
  /\ \E ok \in Outcomes : FetchAccounts(ok) /\ Fault(ok)
  /\ syncs' = [syncs EXCEPT ![u] = [syncs[u] EXCEPT !.pc = "done"]]
  /\ isSyncing' = FALSE
  /\ UNCHANGED <<connections, connectionsRef, isSyncingRef,
                 loading, initialTimeout, cycles, removal>>
  /\ UNCHANGED <<storeVars, requestVars, goalVars, listVars>>

\* (the delete without the cascades)
DeleteConnectionOnly(id) ==
  /\ bankConnections' = [c \in DOMAIN bankConnections \ {id} |-> bankConnections[c]]
  /\ UNCHANGED <<bankAccounts, bankTransactions>>

\* delete from bank_connections where id = id, with the cascades of the
\* foreign keys of bank_accounts and bank_transactions
DeleteConnection(id) ==
  LET gone == {row.id : row \in {x \in bankAccounts : x.bank_connection_id = id}} IN
    /\ bankConnections' = [c \in DOMAIN bankConnections \ {id} |-> bankConnections[c]]
    /\ bankAccounts' = {row \in bankAccounts : row.bank_connection_id # id}
    /\ bankTransactions' = {row \in bankTransactions : row.bank_account_id \notin gone}

\* removeConnection: the delete is sent and the store runs it
RemoveConnection(i) ==
  /\ removal.pc = "idle"
  /\ i \in 1..Len(connections)
  /\ \E ok \in Outcomes :
       /\ Fault(ok)
       /\ removal' = [IdleRemoval EXCEPT !.pc = "await", !.id = connections[i].id, !.ok = ok]
       /\ IF ok
          THEN DeleteConnection(connections[i].id)
          ELSE UNCHANGED <<bankConnections, bankAccounts, bankTransactions>>
  /\ UNCHANGED <<connections, accounts, isSyncing, connectionsRef, isSyncingRef,
                 loading, initialTimeout, cycles, syncs>>
  /\ UNCHANGED <<requestVars, goalVars, listVars>>

\* removeConnection: the delete returns
RemoveConnectionReturn ==
  /\ removal.pc = "await"
  /\ IF removal.ok
     THEN /\ connections' = SelectSeq(connections, LAMBDA c : c.id # removal.id)
          /\ accounts' = {a \in accounts : a.bank_connection_id # removal.id}
          /\ removal' = [removal EXCEPT !.pc = "done", !.toasts = <<"success">>]
     ELSE /\ removal' = [removal EXCEPT !.pc = "done", !.toasts = <<"error">>]
          /\ UNCHANGED <<connections, accounts>>
  /\ UNCHANGED <<isSyncing, connectionsRef, isSyncingRef,
                 loading, initialTimeout, cycles, syncs>>
  /\ UNCHANGED <<serverVars, goalVars, listVars>>

\* the hook after its first render, with room for n periodic cycles
ClientMounted(n) ==
  /\ connections = <<>>
  /\ accounts = {}
  /\ isSyncing = FALSE
  /\ connectionsRef = <<>>
  /\ isSyncingRef = FALSE
  /\ loading = {"connections", "accounts"}
  /\ initialTimeout = TRUE
  /\ cycles = [cy \in 1..n |-> IdleCycle]
  /\ syncs = [u \in 1..MaxSyncs |-> IdleSync]
  /\ removal = IdleRemoval

\* ========================================================================
\* useGoals: goal auto-progress
\* ========================================================================
\* money is counted in cents; a sum that JavaScript computes with a
\* fraction of a cent is counted in tenths of a cent
Mills(cents) == cents * 10

Abs(n) == IF n < 0 THEN 0 - n ELSE n

\* deadline DATE of a goal without a deadline
NoDeadline == 0

NoAmount == 0 - 1

GoalIds == {"g0", "g1", "g2", "g3"}

\* g0 is complete and the most urgent, g1 is the 950 of 1000 of the
\* spec's example, g2 has no deadline, g3 is another user's
InitialGoals ==
  [g \in GoalIds |->
     CASE g = "g0" -> [user_id |-> "uA", target_amount |-> 2000,
                       current_amount |-> 2000, deadline |-> 1]
       [] g = "g1" -> [user_id |-> "uA", target_amount |-> 100000,
                       current_amount |-> 95000, deadline |-> 2]
       [] g = "g2" -> [user_id |-> "uA", target_amount |-> 5000,
                       current_amount |-> 0, deadline |-> NoDeadline]
       [] OTHER -> [user_id |-> "uB", target_amount |-> 9000,
                    current_amount |-> 0, deadline |-> 1]]

\* the new rows of bank_transactions that postgres_changes publishes
Payloads ==
  {[user_id |-> "uA", amount |-> 100000, type |-> "CREDIT"],
   [user_id |-> "uA", amount |-> 1005, type |-> NULL],
   [user_id |-> "uA", amount |-> 0 - 2000, type |-> "CREDIT"],
   [user_id |-> "uA", amount |-> 0 - 500, type |-> "DEBIT"],
   [user_id |-> "uB", amount |-> 300, type |-> "CREDIT"]}

IdleHandler ==
  [pc |-> "idle",
   goal |-> NULL,          \* targetGoal.id
   read |-> NoAmount,      \* targetGoal.current_amount
   target |-> NoAmount,    \* targetGoal.target_amount
   newAmount |-> NoAmount, \* newAmount, in tenths of a cent
   written |-> NoAmount,   \* what the column holds after the update (history)
   toast |-> FALSE]

\* transaction.amount > 0 || transaction.type === 'CREDIT'
IsIncome(transaction) == transaction.amount > 0 \/ transaction.type = "CREDIT"

\* order('deadline', {ascending: true, nullsFirst: false})
Before(g, h) ==
  /\ g.deadline # NoDeadline
  /\ h.deadline = NoDeadline \/ g.deadline < h.deadline

\* incompleteGoals[0]: every goal the ordered select may put first among the
\* incomplete ones (goals of one deadline come in any order)
FirstIncomplete(user) ==
  LET incomplete == {g \in DOMAIN goals : /\ goals[g].user_id = user
                                          /\ goals[g].current_amount < goals[g].target_amount} IN
    {g \in incomplete : \A h \in incomplete : ~Before(goals[h], goals[g])}

\* incomeAmount * 0.1, in tenths of a cent
AmountToAdd(incomeAmount) == Mills(incomeAmount) \div 10

\* (the sum is written as it is)
UncappedAmount(sum, target) == sum

\* Math.min(sum, target)
CappedAmount(sum, target) == IF sum <= target THEN sum ELSE target

\* newAmount, in tenths of a cent
NewAmount(current, incomeAmount, target) ==
  CappedAmount(Mills(current) + AmountToAdd(incomeAmount), Mills(target))

\* what a DECIMAL(12, 2) column may hold, in cents, once the number is
\* written to it: the number rounded to the cent; a number that is half a
\* cent off is a double just below or just above the half (0.35 * 0.1 is
\* 0.034999999999999996, 10.05 * 0.1 is 1.0050000000000001)
Decimal2(mills) ==
  IF mills % 10 = 5
  THEN {mills \div 10, mills \div 10 + 1}
  ELSE {(mills + 5) \div 10}

\* the server inserts a row into bank_transactions
BankTransactionInserted(p) ==
  /\ Len(inserted) < MaxEvents
  /\ inserted' = Append(inserted, p)
  /\ UNCHANGED <<goals, handlers, manual>>
  /\ UNCHANGED <<serverVars, clientVars, listVars>>

\* the INSERT event reaches the subscription of a mounted hook (filter
\* user_id=eq.user.id); the handler tests the row
Observe(h, e) ==
  /\ e \in 1..Len(inserted)
  /\ handlers[h][e].pc = "idle"
  /\ \A k \in 1..(e - 1) : handlers[h][k].pc # "idle" \/ inserted[k].user_id # SessionUser
  /\ inserted[e].user_id = SessionUser
  /\ handlers' = [handlers EXCEPT ![h][e] =
                    [IdleHandler EXCEPT !.pc = IF IsIncome(inserted[e]) THEN "select"
                                                                     ELSE "done"]]
  /\ UNCHANGED <<goals, inserted, manual>>
  /\ UNCHANGED <<serverVars, clientVars, listVars>>

\* the handler reads the goals and computes newAmount
SelectGoals(h, e) ==
  /\ handlers[h][e].pc = "select"
  /\ \E ok \in BOOLEAN :
       IF ok /\ FirstIncomplete(SessionUser) # {}
       THEN \E g \in FirstIncomplete(SessionUser) :
              handlers' =
                [handlers EXCEPT ![h][e] =
                   [IdleHandler EXCEPT
                      !.pc = "update",
                      !.goal = g,
                      !.read = goals[g].current_amount,
                      !.target = goals[g].target_amount,
                      !.newAmount = NewAmount(goals[g].current_amount,
                                              Abs(inserted[e].amount),
                                              goals[g].target_amount)]]
       ELSE handlers' = [handlers EXCEPT ![h][e] = [IdleHandler EXCEPT !.pc = "done"]]
  /\ UNCHANGED <<goals, inserted, manual>>
  /\ UNCHANGED <<serverVars, clientVars, listVars>>

\* update goals set current_amount = newAmount where id = targetGoal.id,
\* whose error is not looked at; then the toast
UpdateGoal(h, e) ==
  /\ handlers[h][e].pc = "update"
  /\ \E ok \in BOOLEAN :
       IF ok
       THEN \E v \in Decimal2(handlers[h][e].newAmount) :
              /\ goals' = [goals EXCEPT ![handlers[h][e].goal].current_amount = v]
              /\ handlers' = [handlers EXCEPT ![h][e] =
                                [handlers[h][e] EXCEPT !.pc = "done", !.written = v,
                                                       !.toast = TRUE]]
       ELSE /\ handlers' = [handlers EXCEPT ![h][e] =
                              [handlers[h][e] EXCEPT !.pc = "done", !.toast = TRUE]]
            /\ UNCHANGED goals
  /\ UNCHANGED <<inserted, manual>>
  /\ UNCHANGED <<serverVars, clientVars, listVars>>

IdleManual ==
  [pc |-> "idle",
   goal |-> NULL,          \* id
   amount |-> NoAmount,    \* amount
   newAmount |-> NoAmount, \* newAmount
   ok |-> FALSE]           \* the update went through (history)

\* what the user may type into the dialog of a goal card, in cents
ManualAmounts == {2500}

\* addToGoal.mutationFn up to the await: the goal is taken from the list the
\* query last delivered (here: the rows as they are now) and newAmount is
\* computed
AddToGoal(id, amount) ==
  /\ manual.pc = "idle"
  /\ goals[id].user_id = SessionUser
  /\ manual' = [IdleManual EXCEPT !.pc = "update", !.goal = id, !.amount = amount,
                                  !.newAmount = goals[id].current_amount + amount]
  /\ UNCHANGED <<goals, inserted, handlers>>
  /\ UNCHANGED <<serverVars, clientVars, listVars>>

\* update goals set current_amount = newAmount where id = id and user_id =
\* user.id; an error is thrown to the caller
AddToGoalUpdate ==
  /\ manual.pc = "update"
  /\ \E ok \in BOOLEAN :
       /\ manual' = [manual EXCEPT !.pc = "done", !.ok = ok]
       /\ goals' = IF ok THEN [goals EXCEPT ![manual.goal].current_amount = manual.newAmount]
                         ELSE goals
  /\ UNCHANGED <<inserted, handlers>>
  /\ UNCHANGED <<serverVars, clientVars, listVars>>

\* the goals of the store, no event yet, the hooks mounted
GoalsMounted ==
  /\ goals = InitialGoals
  /\ inserted = <<>>
  /\ manual = IdleManual
  /\ handlers = [h \in 1..MaxHooks |-> [e \in 1..MaxEvents |-> IdleHandler]]

\* ------------------------------------------------------------------------
\* useBankTransactions (src/hooks/useBankTransactions.tsx)
\* ------------------------------------------------------------------------
\* the rows of bank_transactions the row level security lets the user see
VisibleTransactions(user) == {row \in bankTransactions : row.user_id = user}

\* order('date', {ascending: false}): the row ids, latest date first
RECURSIVE LatestFirst(_)
LatestFirst(rows) ==
  IF rows = {} THEN <<>>
  ELSE LET row == CHOOSE x \in rows : \A y \in rows : DateLeq(y.date, x.date) IN
         <<row.id>> \o LatestFirst(rows \ {row})

RECURSIVE InAnyOrder(_)
InAnyOrder(ids) ==
  IF ids = {} THEN <<>>
  ELSE LET id == CHOOSE x \in ids : TRUE IN <<id>> \o InAnyOrder(ids \ {id})

IdleFetch == [pc |-> "idle", ok |-> FALSE, data |-> <<>>]

\* the rows later sync passes insert for the stored account of connection c1
NewRows ==
  {NewTransaction(<<1, 1, 1>>, SessionUser, <<0, 1>>, TransactionReport("t0", 1)),
   NewTransaction(<<1, 1, 2>>, SessionUser, <<0, 1>>, TransactionReport("t2", 1))}

\* a sync pass inserts a row and the publication announces it to the
\* subscription of the user (filter user_id=eq.user.id)
TransactionInserted(row) ==
  /\ UniqueViolation(row.pluggy_transaction_id) = FALSE
  /\ \E acc \in bankAccounts : acc.id = row.bank_account_id
  /\ bankTransactions' = bankTransactions \cup {row}
  /\ events' = IF row.user_id = SessionUser THEN Append(events, <<"INSERT", row.id>>)
                                            ELSE events
  /\ UNCHANGED <<bankConnections, bankAccounts, shownTransactions, fetches>>
  /\ UNCHANGED <<requestVars, faults, clientVars, goalVars>>

\* a connection is deleted; the publication announces the rows the cascade
\* deleted
ConnectionDeleted(c) ==
  /\ c \in DOMAIN bankConnections
  /\ DeleteConnection(c)
  /\ LET gone == {row.id : row \in {x \in VisibleTransactions(SessionUser) :
                                      \E acc \in bankAccounts :
                                        /\ acc.id = x.bank_account_id
                                        /\ acc.bank_connection_id = c}}
         order == InAnyOrder(gone) IN
       events' = events \o [i \in 1..Len(order) |-> <<"DELETE", order[i]>>]
  /\ UNCHANGED <<shownTransactions, fetches>>
  /\ UNCHANGED <<requestVars, faults, clientVars, goalVars>>

\* setTransactions(prev => [payload.new, ...prev])
Prepend(prev, id) == <<id>> \o prev

\* setTransactions(prev => prev.filter(t => t.id !== payload.old.id))
Without(prev, id) == SelectSeq(prev, LAMBDA t : t # id)

\* the next event reaches the handlers of the subscription
Deliver ==
  /\ events # <<>>
  /\ shownTransactions' = IF Head(events)[1] = "INSERT"
                          THEN Prepend(shownTransactions, Head(events)[2])
                          ELSE Without(shownTransactions, Head(events)[2])
  /\ events' = Tail(events)
  /\ UNCHANGED fetches
  /\ UNCHANGED <<serverVars, clientVars, goalVars>>

\* fetchTransactions is called: by the mount effect, or as
\* refetchBankTransactions by handleSyncAll
FetchTransactions(f) ==
  /\ fetches[f].pc = "idle"
  /\ \A k \in DOMAIN fetches : k < f => fetches[k].pc # "idle"
  /\ fetches' = [fetches EXCEPT ![f] = [IdleFetch EXCEPT !.pc = "select"]]
  /\ UNCHANGED <<shownTransactions, events>>
  /\ UNCHANGED <<serverVars, clientVars, goalVars>>

\* the store runs the select of the fetch, or fails it
SelectTransactions(f) ==
  /\ fetches[f].pc = "select"
  /\ \E ok \in BOOLEAN :
       fetches' = [fetches EXCEPT ![f] =
                     [pc |-> "await", ok |-> ok,
                      data |-> IF ok THEN LatestFirst(VisibleTransactions(SessionUser))
                                     ELSE <<>>]]
  /\ UNCHANGED <<shownTransactions, events>>
  /\ UNCHANGED <<serverVars, clientVars, goalVars>>

\* the select returns: setTransactions(data) unless it failed
FetchTransactionsReturn(f) ==
  /\ fetches[f].pc = "await"
  /\ shownTransactions' = IF fetches[f].ok THEN fetches[f].data ELSE shownTransactions
  /\ fetches' = [fetches EXCEPT ![f].pc = "done"]
  /\ UNCHANGED events
  /\ UNCHANGED <<serverVars, clientVars, goalVars>>

\* the hook after its first render, subscribed
TransactionsMounted ==
  /\ shownTransactions = <<>>
  /\ events = <<>>
  /\ fetches = [f \in 1..MaxFetches |-> IdleFetch]

\* ------------------------------------------------------------------------
\* Specifications
\* ------------------------------------------------------------------------
InitialConnections ==
  [c \in ConnIds |->
     [user_id |-> IF c = "c2" THEN "uB" ELSE "uA",
      pluggy_item_id |-> CASE c = "c1" -> "i1" [] c = "c2" -> "i2" [] OTHER -> "i3",
      created_at |-> CASE c = "c1" -> 1 [] c = "c2" -> 2 [] OTHER -> 3,
      last_sync_at |-> NoStamp]]

\* no request has arrived
InitRequests(n) ==
  /\ pluggyVer = 1
  /\ req = [r \in 1..n |-> IdleRequest]
  /\ calls = [r \in 1..n |-> <<>>]
  /\ passStart = [r \in 1..n |-> [accounts |-> {}, transactions |-> {}, ver |-> 0]]
  /\ faults = 0

InitStore(n) ==
  /\ bankConnections = InitialConnections
  /\ bankAccounts = {}
  /\ bankTransactions = {}
  /\ InitRequests(n)

\* requests of several sessions and tabs run side by side
Init ==
  /\ InitStore(MaxInFlight)
  /\ limit = MaxInFlight
  /\ offered = RequestInputs
  /\ ClientMounted(1)
  /\ GoalsMounted /\ TransactionsMounted

\* one request at a time
InitSeq ==
  /\ InitStore(MaxRequests)
  /\ limit = 1
  /\ offered = RequestInputs
  /\ ClientMounted(1)
  /\ GoalsMounted /\ TransactionsMounted

Next ==
  \/ \E r \in DOMAIN req : Start(r)
  \/ \E r \in DOMAIN req : GetAuthenticatedUser(r)
  \/ \E r \in DOMAIN req : GetPluggyApiKey(r)
  \/ \E r \in DOMAIN req : VerifyConnectionOwnership(r)
  \/ \E r \in DOMAIN req : GetAccounts(r)
  \/ \E r \in DOMAIN req : SelectAccount(r)
  \/ \E r \in DOMAIN req : UpdateAccount(r)
  \/ \E r \in DOMAIN req : InsertAccount(r)
  \/ \E r \in DOMAIN req : GetTransactions(r)
  \/ \E r \in DOMAIN req : SelectTransaction(r)
  \/ \E r \in DOMAIN req : InsertTransaction(r)
  \/ \E r \in DOMAIN req : UpdateLastSync(r)
  \/ AggregatorChange

Spec == Init /\ [][Next]_vars

SpecSeq == InitSeq /\ [][Next]_vars

\* every action of the endpoint, with and without a userId in the body, one
\* request at a time
AllInputs == RequestInputs \cup BodyUserIdInputs \cup ActionInputs \cup UnauthenticatedInputs

InitServe ==
  /\ InitStore(MaxRequests)
  /\ limit = 1
  /\ offered = AllInputs
  /\ ClientMounted(1)
  /\ GoalsMounted /\ TransactionsMounted

NextServe ==
  \/ \E r \in DOMAIN req : Start(r)
  \/ \E r \in DOMAIN req : GetAuthenticatedUser(r)
  \/ \E r \in DOMAIN req : GetPluggyApiKey(r)
  \/ \E r \in DOMAIN req : CreateConnectToken(r)
  \/ \E r \in DOMAIN req : ListAccounts(r)
  \/ \E r \in DOMAIN req : ListTransactions(r)
  \/ \E r \in DOMAIN req : VerifyConnectionOwnership(r)
  \/ \E r \in DOMAIN req : GetAccounts(r)
  \/ \E r \in DOMAIN req : SelectAccount(r)
  \/ \E r \in DOMAIN req : UpdateAccount(r)
  \/ \E r \in DOMAIN req : InsertAccount(r)
  \/ \E r \in DOMAIN req : GetTransactions(r)
  \/ \E r \in DOMAIN req : SelectTransaction(r)
  \/ \E r \in DOMAIN req : InsertTransaction(r)
  \/ \E r \in DOMAIN req : UpdateLastSync(r)
  \/ AggregatorChange

SpecServe == InitServe /\ [][NextServe]_vars

\* the store holds the rows of earlier syncs of the connections
SyncedStore ==
  /\ bankConnections = InitialConnections
  /\ bankAccounts =
       {NewAccount(<<0, 1>>, "uA", "c1", AccountReport("a1", 1), NoStamp),
        NewAccount(<<0, 2>>, "uA", "c3", AccountReport("a5", 1), NoStamp),
        NewAccount(<<0, 3>>, "uB", "c2", AccountReport("a4", 1), NoStamp)}
  /\ bankTransactions =
       {NewTransaction(<<0, 1, 1>>, "uA", <<0, 1>>, TransactionReport("t1", 1)),
        NewTransaction(<<0, 2, 1>>, "uA", <<0, 2>>, TransactionReport("t5", 1)),
        NewTransaction(<<0, 3, 1>>, "uB", <<0, 3>>, TransactionReport("t4", 1))}
  /\ InitRequests(1)
  /\ limit = 0
  /\ offered = {}

\* the session of SessionUser, in which the user syncs and removes
\* connections while a periodic cycle runs
InitClient == SyncedStore /\ ClientMounted(1) /\ GoalsMounted /\ TransactionsMounted

NextClient ==
  \/ LoadConnections
  \/ LoadAccounts
  \/ CommitEffects
  \/ InitialTimeout
  \/ IntervalTick
  \/ \E cy \in DOMAIN cycles : SyncConnectionDirect(cy)
  \/ \E cy \in DOMAIN cycles : DirectFetchConnections(cy)
  \/ \E cy \in DOMAIN cycles : DirectFetchAccounts(cy)
  \/ \E u \in DOMAIN syncs : \E i \in 1..Len(connections) : SyncConnection(u, i)
  \/ \E u \in DOMAIN syncs : SyncConnectionReturn(u)
  \/ \E u \in DOMAIN syncs : SyncFetchConnections(u)
  \/ \E u \in DOMAIN syncs : SyncFetchAccounts(u)
  \/ \E i \in 1..Len(connections) : RemoveConnection(i)
  \/ RemoveConnectionReturn

SpecClient == InitClient /\ [][NextClient]_vars

\* the session of SessionUser over several ticks of the periodic trigger,
\* the connections staying as they are
InitTrigger == SyncedStore /\ ClientMounted(MaxCycles) /\ GoalsMounted /\ TransactionsMounted

NextTrigger ==
  \/ LoadConnections
  \/ LoadAccounts
  \/ CommitEffects
  \/ InitialTimeout
  \/ IntervalTick
  \/ \E cy \in DOMAIN cycles : SyncConnectionDirect(cy)
  \/ \E cy \in DOMAIN cycles : DirectFetchConnections(cy)
  \/ \E cy \in DOMAIN cycles : DirectFetchAccounts(cy)
  \/ \E u \in DOMAIN syncs : \E i \in 1..Len(connections) : SyncConnection(u, i)
  \/ \E u \in DOMAIN syncs : SyncConnectionReturn(u)
  \/ \E u \in DOMAIN syncs : SyncFetchConnections(u)
  \/ \E u \in DOMAIN syncs : SyncFetchAccounts(u)

SpecTrigger == InitTrigger /\ [][NextTrigger]_vars

\* the goals of the store and the mounted hooks of the session
InitGoals ==
  /\ InitStore(1)
  /\ limit = 0
  /\ offered = {}
  /\ ClientMounted(1)
  /\ GoalsMounted /\ TransactionsMounted

NextGoals ==
  \/ \E p \in Payloads : BankTransactionInserted(p)
  \/ \E h \in 1..MaxHooks : \E e \in 1..MaxEvents : Observe(h, e)
  \/ \E h \in 1..MaxHooks : \E e \in 1..MaxEvents : SelectGoals(h, e)
  \/ \E h \in 1..MaxHooks : \E e \in 1..MaxEvents : UpdateGoal(h, e)

SpecGoals == InitGoals /\ [][NextGoals]_vars

\* the handlers of the hooks together with a manual addToGoal of the user
NextGoalsManual ==
  \/ \E p \in Payloads : BankTransactionInserted(p)
  \/ \E h \in 1..MaxHooks : \E e \in 1..MaxEvents : Observe(h, e)
  \/ \E h \in 1..MaxHooks : \E e \in 1..MaxEvents : SelectGoals(h, e)
  \/ \E h \in 1..MaxHooks : \E e \in 1..MaxEvents : UpdateGoal(h, e)
  \/ \E id \in GoalIds : \E amount \in ManualAmounts : AddToGoal(id, amount)
  \/ AddToGoalUpdate

SpecGoalsManual == InitGoals /\ [][NextGoalsManual]_vars

\* the transaction list of the session while passes insert rows, a connection
\* is removed and the list is fetched again
InitTransactions == SyncedStore /\ ClientMounted(1) /\ GoalsMounted /\ TransactionsMounted

NextTransactions ==
  \/ \E row \in NewRows : TransactionInserted(row)
  \/ \E c \in {"c1"} : ConnectionDeleted(c)
  \/ Deliver
  \/ \E f \in DOMAIN fetches : FetchTransactions(f)
  \/ \E f \in DOMAIN fetches : SelectTransactions(f)
  \/ \E f \in DOMAIN fetches : FetchTransactionsReturn(f)

SpecTransactions == InitTransactions /\ [][NextTransactions]_vars

\* ========================================================================
\* Claims
\* ========================================================================
Range(seq) == {seq[i] : i \in 1..Len(seq)}

Done(r) == req[r].pc = "done"

\* the request got past the ownership check and entered syncBankData
InPass(r) == <<"select bank_connections", req[r].connectionId, TRUE>> \in Range(calls[r])

\* the ownership check of the request was reached (the credential exchange
\* with the aggregator, which serve runs first, succeeded)
ReachedOwnershipCheck(r) == <<"pluggy.auth", NULL, TRUE>> \in Range(calls[r])

WriteOps == {"update bank_accounts", "insert bank_accounts",
             "insert bank_transactions", "update bank_connections"}

\* the request has left no trace in the three tables
ZeroWrites(r) ==
  /\ \A e \in Range(calls[r]) : e[1] \notin WriteOps
  /\ \A row \in bankAccounts : row.id[1] # r /\ row.updated_at # r
  /\ \A row \in bankTransactions : row.id[1] # r
  /\ \A c \in DOMAIN bankConnections : bankConnections[c].last_sync_at # r

\* the transaction identifiers the aggregator lists for the accounts of an item
ListedIds(item) ==
  UNION {{tx.id : tx \in Range(ListedTransactions(a, ThreeMonthsAgo(Today), 1))} :
           a \in Range(ItemAccounts(item))}

StoredIds(rows) == {row.pluggy_transaction_id : row \in rows}

InsertedTransactions(r) == {row \in bankTransactions : row.id[1] = r}

\* C1: under any interleaving of sync passes bank_transactions holds at most
\* one row per pluggy_transaction_id, and a pass whose transaction lists hold
\* only identifiers stored when it began inserts no row and returns
\* transactions = 0.
C1_TransactionDedup ==
  /\ \A x, y \in bankTransactions :
       x.pluggy_transaction_id = y.pluggy_transaction_id => x = y
  /\ \A r \in DOMAIN req :
       (InPass(r) /\ ListedIds(req[r].itemId) \subseteq StoredIds(passStart[r].transactions))
         => /\ InsertedTransactions(r) = {}
            /\ req[r].syncedTransactionsCount = 0
            /\ (Done(r) /\ req[r].response.status = 200)
                 => req[r].response.result.transactions = 0

\* C1 witness: two passes raced for the same identifier: both found it absent,
\* one inserted it and the table refused the other's insert.
C1_Witness ==
  \E r, q \in DOMAIN req : \E t \in {"t1", "t2", "t3", "t4"} :
    /\ r # q
    /\ faults = 0
    /\ <<"insert bank_transactions", t, TRUE>> \in Range(calls[r])
    /\ <<"insert bank_transactions", t, FALSE>> \in Range(calls[q])

\* the sync request names a connection of another user / no connection
ForeignConnection(r) ==
  /\ req[r].action = "sync" /\ req[r].token \in Users
  /\ req[r].connectionId \in DOMAIN bankConnections
  /\ bankConnections[req[r].connectionId].user_id # req[r].token

UnknownConnection(r) ==
  /\ req[r].action = "sync" /\ req[r].token \in Users
  /\ req[r].connectionId \notin DOMAIN bankConnections

LastDone(r) == Done(r) /\ \A q \in DOMAIN req : q > r => req[q].pc = "idle"

Succeeded(r) == Done(r) /\ req[r].response.status = 200

\* C3: two successive passes for one connection with the same account
\* responses leave one bank_accounts row per pluggy_account_id: the first
\* pass inserts it, the second updates that very row and inserts none.
C3_IdempotentAccountUpsert ==
  /\ \A x, y \in bankAccounts : x.pluggy_account_id = y.pluggy_account_id => x = y
  /\ \A r1, r2 \in DOMAIN req :
       ( /\ r1 < r2 /\ Succeeded(r1) /\ Succeeded(r2)
         /\ req[r1].connectionId = req[r2].connectionId
         /\ req[r1].itemId = req[r2].itemId
         /\ passStart[r1].ver = passStart[r2].ver )
       => \A i \in 1..Len(ItemAccounts(req[r1].itemId)) :
            LET a == ItemAccounts(req[r1].itemId)[i] IN
              (\A row \in passStart[r1].accounts : row.pluggy_account_id # a)
              => /\ \E ok \in BOOLEAN : <<"insert bank_accounts", a, ok>> \in Range(calls[r1])
                 /\ <<"insert bank_accounts", a, TRUE>> \in Range(calls[r1])
                      => /\ \E row \in bankAccounts :
                              /\ row.id = <<r1, i>>
                              /\ AccountsByPluggyId(a) = {row}
                              /\ LastDone(r2) => row.updated_at = r2
                         /\ <<"update bank_accounts", a, TRUE>> \in Range(calls[r2])
                         /\ \A ok \in BOOLEAN :
                              <<"insert bank_accounts", a, ok>> \notin Range(calls[r2])
                         /\ \A row \in bankAccounts : row.id[1] # r2 \/ row.pluggy_account_id # a

\* C3 witness: a row inserted by one pass was updated by the next pass for
\* the same connection and the same responses.
C3_Witness ==
  \E r1, r2 \in DOMAIN req :
    /\ r2 = r1 + 1 /\ Succeeded(r1) /\ Succeeded(r2)
    /\ req[r1].connectionId = req[r2].connectionId
    /\ req[r1].itemId = req[r2].itemId
    /\ passStart[r1].ver = passStart[r2].ver
    /\ Cardinality(bankAccounts) = Len(ItemAccounts(req[r1].itemId))
    /\ \A row \in bankAccounts : row.id[1] = r1 /\ row.updated_at = r2

\* the rows an existing account has after a pass, with what the aggregator
\* reported for it in that pass
UpdatedPairs(r) ==
  {<<row, AccountReport(row.pluggy_account_id, passStart[r].ver)>> :
     row \in {x \in bankAccounts :
                /\ x.pluggy_account_id \in Range(ItemAccounts(req[r].itemId))
                /\ \E old \in passStart[r].accounts : old.id = x.id}}

\* C4 as stated: after a pass every field of an account that existed before
\* is the reported value, the currency included.
C4_Original ==
  \A r \in DOMAIN req :
    (LastDone(r) /\ Succeeded(r)) =>
      \A p \in UpdatedPairs(r) :
        /\ p[1].balance = p[2].balance
        /\ p[1].name = p[2].name
        /\ p[1].type = p[2].type
        /\ p[1].subtype = p[2].subtype
        /\ p[1].bank_data = p[2]
        /\ p[1].currency = p[2].currencyCode

\* C4 amended: balance (replaced, not summed), name, type, subtype and raw
\* payload are the reported values; the currency is the reported code, or
\* BRL when the aggregator reports none.
C4_BalanceOverwrite ==
  \A r \in DOMAIN req :
    (LastDone(r) /\ Succeeded(r)) =>
      \A p \in UpdatedPairs(r) :
        /\ p[1].balance = p[2].balance
        /\ p[1].name = p[2].name
        /\ p[1].type = p[2].type
        /\ p[1].subtype = p[2].subtype
        /\ p[1].bank_data = p[2]
        /\ p[1].currency = IF p[2].currencyCode = NULL THEN "BRL" ELSE p[2].currencyCode

\* C4 witness: a pass met an account stored with balance 10000 and left it
\* with the reported 8550.
C4_Witness ==
  \E r \in DOMAIN req :
    /\ LastDone(r) /\ Succeeded(r)
    /\ \E p \in UpdatedPairs(r) : \E old \in passStart[r].accounts :
         /\ old.id = p[1].id
         /\ old.balance = 10000
         /\ p[1].balance = 8550
         /\ p[1].currency = "BRL"

\* what the pass had committed before its i-th call is still stored
CommittedBefore(r, i) ==
  \A j \in 1..(i - 1) :
    LET e == calls[r][j] IN
      /\ (e[1] \in {"insert bank_accounts", "update bank_accounts"} /\ e[3])
           => \E row \in bankAccounts : row.pluggy_account_id = e[2] /\ row.updated_at = r
      /\ (e[1] = "insert bank_transactions" /\ e[3])
           => \E row \in bankTransactions : row.pluggy_transaction_id = e[2] /\ row.id[1] = r

TransactionsFailedAt(r, i) ==
  i \in 1..Len(calls[r]) /\ calls[r][i] = <<"pluggy.transactions", "a2", FALSE>>

UpsertedAccounts(r) ==
  {a \in Range(ItemAccounts(req[r].itemId)) :
     \E row \in bankAccounts : row.pluggy_account_id = a /\ row.updated_at = r}

AccountView(row) ==
  [pluggy_account_id |-> row.pluggy_account_id, user_id |-> row.user_id,
   bank_connection_id |-> row.bank_connection_id, name |-> row.name,
   type |-> row.type, subtype |-> row.subtype, balance |-> row.balance,
   currency |-> row.currency, bank_data |-> row.bank_data]

\* a bank_transactions row by external identifiers and field values
TransactionView(row, accRows) ==
  [pluggy_transaction_id |-> row.pluggy_transaction_id, user_id |-> row.user_id,
   pluggy_account_id |->
     (CHOOSE acc \in accRows : acc.id = row.bank_account_id).pluggy_account_id,
   description |-> row.description, amount |-> row.amount, date |-> row.date,
   type |-> row.type, category |-> row.category, payment_data |-> row.payment_data]

\* the rows one pass without failure leaves, for user u, connection c, item
\* and response version ver, from the account rows and transactions given
ExpectedAccounts(accRows, u, c, item, ver) ==
  LET listed == Range(ItemAccounts(item)) IN
    {AccountView(row) : row \in {x \in accRows : x.pluggy_account_id \notin listed}}
    \cup {[AccountView(row) EXCEPT
             !.name = AccountReport(row.pluggy_account_id, ver).name,
             !.type = AccountReport(row.pluggy_account_id, ver).type,
             !.subtype = AccountReport(row.pluggy_account_id, ver).subtype,
             !.balance = AccountReport(row.pluggy_account_id, ver).balance,
             !.currency = IF AccountReport(row.pluggy_account_id, ver).currencyCode = NULL
                          THEN "BRL"
                          ELSE AccountReport(row.pluggy_account_id, ver).currencyCode,
             !.bank_data = AccountReport(row.pluggy_account_id, ver)] :
            row \in {x \in accRows : x.pluggy_account_id \in listed}}
    \cup {[pluggy_account_id |-> a, user_id |-> u, bank_connection_id |-> c,
           name |-> AccountReport(a, ver).name, type |-> AccountReport(a, ver).type,
           subtype |-> AccountReport(a, ver).subtype,
           balance |-> AccountReport(a, ver).balance,
           currency |-> IF AccountReport(a, ver).currencyCode = NULL
                        THEN "BRL" ELSE AccountReport(a, ver).currencyCode,
           bank_data |-> AccountReport(a, ver)] :
            a \in {x \in listed : \A row \in accRows : row.pluggy_account_id # x}}

ExpectedTransactions(transactions, accRows, u, item, ver) ==
  {TransactionView(row, accRows) : row \in transactions}
  \cup UNION {
         {[pluggy_transaction_id |-> tx.id, user_id |-> u, pluggy_account_id |-> a,
           description |-> tx.description, amount |-> tx.amount, date |-> tx.date,
           type |-> tx.type, category |-> tx.category, payment_data |-> tx] :
            tx \in {x \in Range(ListedTransactions(a, ThreeMonthsAgo(Today), ver)) :
                      x.id \notin StoredIds(transactions)}} :
         a \in Range(ItemAccounts(item))}

\* the store holds what a single pass without failure leaves from the store
\* the request base began with
ConvergedFrom(base, r) ==
  LET u == req[r].token
      c == req[r].connectionId
      item == req[r].itemId
      ver == passStart[r].ver
      wantA == ExpectedAccounts(passStart[base].accounts, u, c, item, ver)
      wantT == ExpectedTransactions(passStart[base].transactions,
                                    passStart[base].accounts, u, item, ver) IN
    /\ {AccountView(row) : row \in bankAccounts} = wantA
    /\ Cardinality(bankAccounts) = Cardinality(wantA)
    /\ {TransactionView(row, bankAccounts) : row \in bankTransactions} = wantT
    /\ Cardinality(bankTransactions) = Cardinality(wantT)

\* the pass ran into a failure of the aggregator or of the store
FailedPartWay(r) == InPass(r) /\ \E e \in Range(calls[r]) : ~e[3]

\* the pass ran to its end without any failure
CleanPass(r) == Succeeded(r) /\ \A e \in Range(calls[r]) : e[3]

SameRequest(r1, r2) ==
  /\ req[r1].token = req[r2].token
  /\ req[r1].connectionId = req[r2].connectionId
  /\ req[r1].itemId = req[r2].itemId
  /\ passStart[r1].ver = passStart[r2].ver

GoalUpdates ==
  {he \in (1..MaxHooks) \X (1..MaxEvents) :
     handlers[he[1]][he[2]].pc = "done" /\ handlers[he[1]][he[2]].written # NoAmount}

\* min(previous accumulated + 10% of |amount|, target), in tenths of a cent
ExactShare(he) ==
  LET q == handlers[he[1]][he[2]]
      sum == Mills(q.read) + Abs(inserted[he[2]].amount) IN
    IF sum <= Mills(q.target) THEN sum ELSE Mills(q.target)

C9_NoOverlappingPasses ==
  /\ Cardinality(PassesInFlight) <= 1
  /\ \A cy \in DOMAIN cycles : ~cycles[cy].overlapped

\* C10: in every periodic cycle that is not skipped a sync is attempted
\* exactly once for every connection that connectionsRef held when the cycle
\* began, in list order: what has been attempted is at every moment the
\* beginning of that list, up to the position of the loop, and the whole list
\* once the cycle has ended, whatever the passes handed back
C10_EveryConnectionAttempted ==
  \A cy \in DOMAIN cycles :
    LET q == cycles[cy]
        known == ConnectionIdsOf(q.list) IN
      /\ q.pc # "idle" =>
           /\ Len(q.list) > 0
           /\ q.i \in 1..Len(q.list)
           /\ q.attempted = SubSeq(known, 1, q.i)
           /\ Len(q.outcomes) \in {q.i - 1, q.i}
      /\ q.pc = "done" =>
           /\ q.attempted = known
           /\ Len(q.outcomes) = Len(known)

\* a cycle over two connections has ended; the pass of the first connection
\* failed or threw, the second was attempted all the same, and the
\* connection list of the hook is no longer the one the cycle began with
C10_Witness ==
  \E cy \in DOMAIN cycles :
    /\ cycles[cy].pc = "done"
    /\ ConnectionIdsOf(cycles[cy].list) = <<"c3", "c1">>
    /\ cycles[cy].outcomes[1] \in {"error", "throw"}
    /\ cycles[cy].attempted = <<"c3", "c1">>
    /\ connections # cycles[cy].list

\* ------------------------------------------------------------------------
\* last_sync_at, stored transactions, status codes
\* ------------------------------------------------------------------------
\* the request wrote last_sync_at
WroteLastSync(r) == \E e \in Range(calls[r]) : e[1] = "update bank_connections"

\* a call of the pass to the aggregator or to the store failed
FailedInPass(r) ==
  \E e \in Range(calls[r]) :
    /\ e[1] \in {"pluggy.accounts", "pluggy.transactions", "insert bank_accounts",
                 "insert bank_transactions"}
    /\ ~e[3]

\* the account listing of the pass succeeded
ListedAccounts(r) == <<"pluggy.accounts", req[r].itemId, TRUE>> \in Range(calls[r])

C12_TransactionsImmutable == [][bankTransactions \subseteq bankTransactions']_vars

\* a pass that succeeded while the aggregator reported the second version of
\* t1 looked t1 up and left the stored row with what the first version said
C12_Witness ==
  \E r \in DOMAIN req :
    /\ Succeeded(r)
    /\ passStart[r].ver = 2
    /\ <<"select bank_transactions", "t1", TRUE>> \in Range(calls[r])
    /\ \E row \in bankTransactions :
         /\ row.pluggy_transaction_id = "t1"
         /\ row.payment_data = TransactionReport("t1", 1)
         /\ row.amount # TransactionReport("t1", 2).amount

\* the session token of the request is missing, invalid or expired
TokenRejected(r) == req[r].token \notin Users

\* verifyConnectionOwnership threw
OwnershipFailed(r) ==
  \E e \in Range(calls[r]) : e[1] = "select bank_connections" /\ ~e[3]

\* the request was ended by a failure of the aggregator
AggregatorFailed(r) ==
  /\ Done(r) /\ req[r].response.status # 200
  /\ Len(calls[r]) > 0
  /\ calls[r][Len(calls[r])][1] \in {"pluggy.auth", "pluggy.connect_token",
                                     "pluggy.accounts", "pluggy.transactions"}
  /\ ~calls[r][Len(calls[r])][3]

\* C13 as the spec states it: the endpoint answers 401 when the session token
\* is missing, invalid or expired or the connection belongs to another user,
\* it answers 401 for nothing but a rejected token or a failed ownership
\* check, and it answers 500 for every failure of the aggregator
\* (authentication, connect token, account list, transaction list), never 401
C13_StatusMapping ==
  \A r \in DOMAIN req :
    Done(r) =>
      /\ (TokenRejected(r) \/ (OwnershipFailed(r) /\ ForeignConnection(r)))
            => req[r].response.status = 401
      /\ req[r].response.status = 401 => (TokenRejected(r) \/ OwnershipFailed(r))
      /\ AggregatorFailed(r) => req[r].response.status = 500

\* the calls of the two requests are the same, one by one
SameCalls(r1, r2) ==
  /\ Len(calls[r1]) = Len(calls[r2])
  /\ \A k \in 1..Len(calls[r1]) :
       /\ calls[r1][k][1] = calls[r2][k][1]
       /\ calls[r1][k][3] = calls[r2][k][3]
       /\ calls[r1][k][2] = calls[r2][k][2]

SameResponse(r1, r2) ==
  /\ req[r1].response.status = req[r2].response.status
  /\ req[r1].response.error = req[r2].response.error
  /\ req[r1].response.result = req[r2].response.result

\* no call of the request to the aggregator failed and no insert was rejected
NoFault(r) ==
  \A e \in Range(calls[r]) :
    e[3] \/ e[1] \in {"auth.getUser", "select bank_connections",
                      "select bank_accounts", "select bank_transactions"}

\* the two requests differ in nothing but the userId of the body
DifferOnlyInBodyUserId(r1, r2) ==
  /\ req[r1].token = req[r2].token
  /\ req[r1].action = req[r2].action
  /\ req[r1].itemId = req[r2].itemId
  /\ req[r1].connectionId = req[r2].connectionId
  /\ req[r1].accountId = req[r2].accountId
  /\ req[r1].bodyUserId # req[r2].bodyUserId

\* the two passes began with the same rows (by external identifier and field
\* values) and the same aggregator responses
SameStart(r1, r2) ==
  /\ passStart[r1].ver = passStart[r2].ver
  /\ {AccountView(row) : row \in passStart[r1].accounts}
       = {AccountView(row) : row \in passStart[r2].accounts}
  /\ {TransactionView(row, passStart[r1].accounts) : row \in passStart[r1].transactions}
       = {TransactionView(row, passStart[r2].accounts) : row \in passStart[r2].transactions}

\* C14: the caller is the user of the verified session token and nothing the
\* body says: every row a request inserted carries the user of its token as
\* user_id, a request with the token of one user is refused for the connection
\* of another whatever userId its body names, and two sync requests that
\* differ only in the userId of the body make the same calls and writes and
\* get the same response.
C14_IdentityFromToken ==
  /\ \A row \in bankAccounts :
       row.id[1] \in DOMAIN req => row.user_id = req[row.id[1]].token
  /\ \A row \in bankTransactions :
       row.id[1] \in DOMAIN req => row.user_id = req[row.id[1]].token
  /\ \A r \in DOMAIN req :
       (Done(r) /\ ForeignConnection(r)) => (req[r].response.status # 200 /\ ZeroWrites(r))
  /\ \A r1, r2 \in DOMAIN req :
       ( /\ Done(r1) /\ Done(r2) /\ DifferOnlyInBodyUserId(r1, r2)
         /\ NoFault(r1) /\ NoFault(r2)
         /\ (InPass(r1) /\ InPass(r2)) => SameStart(r1, r2) )
       => (SameCalls(r1, r2) /\ SameResponse(r1, r2))

\* a pass of uA over c1 that named uB in the body inserted an account that
\* belongs to uA, and two later passes of uA that differ only in the userId of
\* the body began with the same rows and both succeeded
C14_Witness ==
  \E r1, r2, r3 \in DOMAIN req :
    /\ req[r1].token = "uA" /\ req[r1].bodyUserId = "uB"
    /\ \E row \in bankAccounts : row.id[1] = r1 /\ row.user_id = "uA"
    /\ Succeeded(r2) /\ Succeeded(r3)
    /\ DifferOnlyInBodyUserId(r2, r3) /\ SameStart(r2, r3)
    /\ NoFault(r2) /\ NoFault(r3)

\* inside the pass a transaction list failed or the store rejected a write
ListOrWriteFailed(r) ==
  \E e \in Range(calls[r]) :
    /\ e[1] \in {"pluggy.transactions", "insert bank_accounts", "insert bank_transactions"}
    /\ ~e[3]

\* the number of calls of the request with one of the operations that went through
CountOk(r, ops) ==
  Cardinality({k \in 1..Len(calls[r]) : calls[r][k][1] \in ops /\ calls[r][k][3]})

ReferencesIntact ==
  /\ \A row \in bankAccounts : row.bank_connection_id \in DOMAIN bankConnections
  /\ \A tx \in bankTransactions : \E row \in bankAccounts : row.id = tx.bank_account_id

\* the store and the lists of the client hold nothing of the connection
ConnectionGone(id) ==
  /\ id \notin DOMAIN bankConnections
  /\ \A row \in bankAccounts : row.bank_connection_id # id
  /\ \A k \in 1..Len(connections) : connections[k].id # id
  /\ \A a \in accounts : a.bank_connection_id # id

PassToasts(toasts) == SelectSeq(toasts, LAMBDA t : t # "error loading connections")

\* the number of invocations of the cycle that returned new transactions
CountSome(outcomes) == Cardinality({k \in 1..Len(outcomes) : outcomes[k] = "some"})

AggregatorOps == {"pluggy.auth", "pluggy.connect_token", "pluggy.accounts",
                  "pluggy.transactions"}

\* the ownership check of the request had succeeded before its k-th call
OwnershipVerifiedBefore(r, k) ==
  \E j \in 1..(k - 1) : calls[r][j] = <<"select bank_connections", req[r].connectionId, TRUE>>

\* C18 as the spec states it: a sync request makes no call to the aggregator,
\* the credential exchange included, before its ownership check has succeeded.
C18_Original ==
  \A r \in DOMAIN req : \A k \in 1..Len(calls[r]) :
    (req[r].action = "sync" /\ calls[r][k][1] \in AggregatorOps)
      => OwnershipVerifiedBefore(r, k)

\* C18 amended: within a sync request the ownership check comes after the
\* verification of the session token and the credential exchange with the
\* aggregator, and before every other step: no account or transaction is
\* listed and no table is read or written before the check has succeeded, and
\* a request whose check fails has made no call but those three.
C18_OwnershipBeforeData ==
  \A r \in DOMAIN req :
    req[r].action = "sync" =>
      /\ \A k \in 1..Len(calls[r]) :
           calls[r][k][1] \notin {"auth.getUser", "pluggy.auth", "select bank_connections"}
             => OwnershipVerifiedBefore(r, k)
      /\ \A k \in 1..Len(calls[r]) :
           calls[r][k][1] = "select bank_connections" =>
             /\ k = 3
             /\ calls[r][1] = <<"auth.getUser", req[r].token, TRUE>>
             /\ calls[r][2] = <<"pluggy.auth", NULL, TRUE>>
      /\ OwnershipFailed(r) => (Done(r) /\ Len(calls[r]) = 3 /\ ZeroWrites(r))
      /\ (ForeignConnection(r) \/ UnknownConnection(r)) =>
           \A e \in Range(calls[r]) : e[1] \notin {"pluggy.accounts", "pluggy.transactions"}

\* a request for the connection of another user made the credential exchange,
\* failed the ownership check and ended, while the owner's request listed
\* accounts after its check
C18_Witness ==
  \E r, q \in DOMAIN req :
    /\ Done(r) /\ ForeignConnection(r)
    /\ calls[r] = <<<<"auth.getUser", req[r].token, TRUE>>,
                    <<"pluggy.auth", NULL, TRUE>>,
                    <<"select bank_connections", req[r].connectionId, FALSE>>>>
    /\ InPass(q) /\ ListedAccounts(q)

\* the k-th call of the request is the upsert of account a and it went through
UpsertedAt(r, k, a) ==
  /\ k \in 1..Len(calls[r])
  /\ calls[r][k][1] \in {"update bank_accounts", "insert bank_accounts"}
  /\ calls[r][k][2] = a
  /\ calls[r][k][3]

\* C19: within one pass the transactions of an account are fetched right
\* after the upsert of its row went through and not otherwise; every
\* transaction row a pass inserted references an existing account row, that of
\* the account the aggregator lists the transaction for; and after a rejected
\* insert of a new account the pass neither fetches nor inserts a transaction
\* of that account.
C19_AccountBeforeTransactions ==
  /\ \A r \in DOMAIN req : \A k \in 1..Len(calls[r]) :
       /\ calls[r][k][1] = "pluggy.transactions" => UpsertedAt(r, k - 1, calls[r][k][2])
       /\ (calls[r][k][1] = "insert bank_accounts" /\ ~calls[r][k][3]) =>
            /\ \A j \in (k + 1)..Len(calls[r]) :
                 ~(calls[r][j][1] = "pluggy.transactions" /\ calls[r][j][2] = calls[r][k][2])
            /\ \A row \in bankTransactions :
                 row.id[1] = r =>
                   row.pluggy_transaction_id
                     \notin Range(AccountTransactionIds(calls[r][k][2]))
  /\ \A row \in bankTransactions :
       \E acc \in bankAccounts :
         /\ acc.id = row.bank_account_id
         /\ row.pluggy_transaction_id \in Range(AccountTransactionIds(acc.pluggy_account_id))
         /\ row.id[1] \in DOMAIN req =>
              \E k \in 1..Len(calls[row.id[1]]) : UpsertedAt(row.id[1], k, acc.pluggy_account_id)

\* the store rejected the insert of the new account a2: the pass fetched no
\* transactions for it, inserted the account a3 after it and the transaction
\* of a3 with a reference to that row
C19_Witness ==
  \E r \in DOMAIN req : \E k \in 1..Len(calls[r]) :
    /\ Done(r)
    /\ calls[r][k] = <<"insert bank_accounts", "a2", FALSE>>
    /\ calls[r][k + 1] = <<"select bank_accounts", "a3", TRUE>>
    /\ \E row \in bankTransactions : \E acc \in bankAccounts :
         /\ row.id[1] = r /\ acc.id[1] = r
         /\ row.bank_account_id = acc.id
         /\ acc.pluggy_account_id = "a3"

\* the sync requests of the cycle that have been invoked and have not returned
Outstanding(q) == Len(q.attempted) - Len(q.outcomes)

\* C20: within one periodic cycle the connections are synced strictly one
\* after another: the cycle has one request outstanding while it awaits an
\* invocation and none otherwise, so the request for a connection is invoked
\* only after the request for the connection before it has returned and the
\* refresh of the lists that follows it has ended.
C20_OneRequestPerCycle ==
  \A cy \in DOMAIN cycles :
    LET q == cycles[cy] IN
      /\ Outstanding(q) \in {0, 1}
      /\ Outstanding(q) = 1 <=> q.pc = "invoke"
      /\ q.pc = "invoke" => Len(q.outcomes) = q.i - 1
      /\ q.pc \in {"fetchConnections", "fetchAccounts"} =>
           /\ Len(q.outcomes) = q.i
           /\ q.outcomes[q.i] = "some"

\* a cycle over two connections awaits the request for the second one after
\* the request for the first has returned, while another cycle awaits a
\* request of its own
C20_Witness ==
  \E cy, other \in DOMAIN cycles :
    /\ cy # other
    /\ cycles[cy].pc = "invoke"
    /\ Len(cycles[cy].list) = 2
    /\ cycles[cy].i = 2
    /\ Len(cycles[cy].outcomes) = 1
    /\ cycles[other].pc = "invoke"
    /\ Outstanding(cycles[other]) = 1

\* ------------------------------------------------------------------------
\* Items, accounts and owners
\* ------------------------------------------------------------------------
\* C21 as the spec states it: every account row stored under a connection is
\* an account of the item that connection stores as its pluggy_item_id,
\* whatever itemId the requests named.
C21_AccountsOfOwnItem ==
  \A row \in bankAccounts :
    row.bank_connection_id \in DOMAIN bankConnections =>
      row.pluggy_account_id
        \in Range(ItemAccounts(bankConnections[row.bank_connection_id].pluggy_item_id))

\* C22 as the spec states it: bank_accounts holds at most one row for an
\* external account identifier, also while two passes for the same account
\* interleave.
C22_OneRowPerAccount ==
  \A a \in {row.pluggy_account_id : row \in bankAccounts} :
    Cardinality(AccountsByPluggyId(a)) <= 1

\* ------------------------------------------------------------------------
\* Goal auto-progress: which goal, when, how often
\* ------------------------------------------------------------------------
\* goal g of the user is incomplete and no incomplete goal of the user has an
\* earlier deadline (a goal without deadline comes after every goal with one)
MostUrgentIncomplete(g, user) ==
  /\ goals[g].user_id = user
  /\ goals[g].current_amount < goals[g].target_amount
  /\ \A h \in DOMAIN goals :
       (goals[h].user_id = user /\ goals[h].current_amount < goals[h].target_amount)
         => \/ goals[h].deadline = NoDeadline
            \/ (goals[g].deadline # NoDeadline /\ goals[g].deadline <= goals[h].deadline)

\* C23 as the spec states it: a step that changes a goal changes one goal
\* only, and that goal is, when it is changed, the first of the user's goals
\* in deadline order (no deadline last) whose accumulated amount is less than
\* its target; a goal at or above its target is never changed.
C23_FirstIncompleteGoalOnly ==
  [][\A g \in DOMAIN goals :
       goals'[g] # goals[g] =>
         /\ MostUrgentIncomplete(g, SessionUser)
         /\ \A h \in DOMAIN goals \ {g} : goals'[h] = goals[h]]_vars

\* the user has a goal whose accumulated amount is below its target
HasIncompleteGoal(user) ==
  \E g \in DOMAIN goals :
    goals[g].user_id = user /\ goals[g].current_amount < goals[g].target_amount

\* C24 as the spec states it: the handler of a new row goes on to the goals
\* exactly when the amount of the row is positive or its type is CREDIT; a
\* goal row is changed only by the handler of such a row, and no goal row is
\* changed while the user has no incomplete goal.
C24_IncomeOnly ==
  [][/\ \A h \in 1..MaxHooks : \A e \in 1..MaxEvents :
          (handlers[h][e].pc = "idle" /\ handlers'[h][e].pc # "idle") =>
            (handlers'[h][e].pc = "select" <=> IsIncome(inserted[e]))
     /\ goals' # goals =>
          /\ \E h \in 1..MaxHooks : \E e \in 1..MaxEvents :
               /\ handlers[h][e].pc = "update" /\ handlers'[h][e].pc = "done"
               /\ IsIncome(inserted[e])
          /\ HasIncompleteGoal(SessionUser)]_vars

\* the hooks whose handler of event e wrote a goal
Applied(e) ==
  {h \in 1..MaxHooks : handlers[h][e].pc = "done" /\ handlers[h][e].written # NoAmount}

\* C25 as the spec states it: the share of an inserted row is applied to the
\* goals at most once, however many hooks are mounted.
C25_AppliedAtMostOnce ==
  \A e \in 1..Len(inserted) : Cardinality(Applied(e)) <= 1

\* C26 as the spec states it: a pass changes only account rows of its own
\* connection and of its own user, and every transaction row has the user_id
\* of the account row it references.
C26_OwnRowsOnly ==
  /\ \A row \in bankAccounts :
       row.updated_at \in DOMAIN req =>
         /\ row.user_id = req[row.updated_at].token
         /\ row.bank_connection_id = req[row.updated_at].connectionId
  /\ \A tx \in bankTransactions : \A row \in bankAccounts :
       row.id = tx.bank_account_id => tx.user_id = row.user_id

\* the handlers that wrote goal g: <<hook, event>>
WritersOf(g) ==
  {he \in GoalUpdates : handlers[he[1]][he[2]].goal = g}

\* 10% of the amount of the event, in whole cents, rounded down
ShareOf(he) == Abs(inserted[he[2]].amount) \div 10

RECURSIVE SumOfShares(_)
SumOfShares(writers) ==
  IF writers = {} THEN 0
  ELSE LET he == CHOOSE x \in writers : TRUE IN
         ShareOf(he) + SumOfShares(writers \ {he})

\* what a manual addToGoal that went through added to goal g
ManualTo(g) == IF manual.pc = "done" /\ manual.ok /\ manual.goal = g THEN manual.amount ELSE 0

\* no handler and no addToGoal is between its read and its write
GoalsAtRest ==
  /\ manual.pc # "update"
  /\ \A h \in 1..MaxHooks : \A e \in 1..MaxEvents : handlers[h][e].pc \notin {"select", "update"}

\* C27 as the spec states it: no update of a goal is lost: once the handlers
\* and the manual addToGoal that wrote a goal have all ended, the goal holds
\* at least its initial amount plus every contribution written to it, or its
\* target when the contributions reach it.
C27_NoLostUpdate ==
  GoalsAtRest =>
    \A g \in DOMAIN goals :
      LET total == InitialGoals[g].current_amount + SumOfShares(WritersOf(g)) + ManualTo(g) IN
        goals[g].current_amount >=
          (IF total <= goals[g].target_amount THEN total ELSE goals[g].target_amount)

\* ------------------------------------------------------------------------
\* The other actions of the endpoint
\* ------------------------------------------------------------------------
\* the users that have a connection to the item
ItemOwners(item) ==
  {bankConnections[c].user_id :
     c \in {x \in DOMAIN bankConnections : bankConnections[x].pluggy_item_id = item}}

\* the users that have a connection to the item of the account
AccountOwners(a) ==
  UNION {ItemOwners(item) : item \in {i \in Items : a \in Range(ItemAccounts(i))}}

\* C28 as the spec states it: get-accounts and get-transactions hand out data
\* of the aggregator only for an item or account of a connection of the
\* caller.
C28_OwnDataOnly ==
  \A r \in DOMAIN req :
    (Done(r) /\ req[r].response.status = 200) =>
      /\ req[r].action = "get-accounts" => req[r].token \in ItemOwners(req[r].itemId)
      /\ req[r].action = "get-transactions" => req[r].token \in AccountOwners(req[r].accountId)

\* C29: a request without Authorization header or with a token the auth
\* service rejects is answered with the error of the authentication, whatever
\* its action and its body, and has made no call but the lookup of the token:
\* no call to the aggregator, no read and no write of the store.
C29_AuthenticationFirst ==
  \A r \in DOMAIN req :
    /\ Len(calls[r]) > 0 => calls[r][1] = <<"auth.getUser", req[r].token, req[r].token \in Users>>
    /\ (req[r].pc # "idle" /\ TokenRejected(r)) =>
         /\ calls[r] \in {<<>>, <<<<"auth.getUser", req[r].token, FALSE>>>>}
         /\ ZeroWrites(r)
         /\ req[r].pc \in {"getUser", "done"}
         /\ Done(r) =>
              /\ req[r].response.status = 401
              /\ req[r].response.result = <<>>
              /\ req[r].response.error =
                   IF req[r].token = NoToken THEN MsgMissingAuth ELSE MsgInvalidToken

\* requests without header and with a rejected token were refused for three
\* actions, among them one whose body lacks the itemId its action requires and
\* one for an action the switch does not know
C29_Witness ==
  \E r1, r2, r3 \in DOMAIN req :
    /\ Done(r1) /\ Done(r2) /\ Done(r3)
    /\ req[r1].token = NoToken /\ req[r1].action = "get-accounts" /\ req[r1].itemId = NULL
    /\ req[r1].response.error = MsgMissingAuth
    /\ req[r2].token = BadToken /\ req[r2].action = "refresh"
    /\ req[r2].response.error = MsgInvalidToken
    /\ req[r3].token = BadToken /\ req[r3].action = "sync"
    /\ calls[r3] = <<<<"auth.getUser", BadToken, FALSE>>>>

\* ------------------------------------------------------------------------
\* The transaction list of the client
\* ------------------------------------------------------------------------
\* every event has been delivered and no fetch is under way
ListAtRest ==
  /\ events = <<>>
  /\ \A f \in DOMAIN fetches : fetches[f].pc \in {"idle", "done"}

\* C30 as the spec states it: the list of the client never holds a row id
\* twice and, once every event is delivered and a fetch has gone through with
\* none under way, holds exactly the stored rows of the user.
C30_ListMatchesStore ==
  /\ \A i, j \in 1..Len(shownTransactions) :
       shownTransactions[i] = shownTransactions[j] => i = j
  /\ (ListAtRest /\ \E f \in DOMAIN fetches : fetches[f].pc = "done" /\ fetches[f].ok) =>
       Range(shownTransactions) = {row.id : row \in VisibleTransactions(SessionUser)}

====
